---- MODULE Spec2Model ----
(***************************************************************************)
(* Model of the query-and-pagination engine built by createWebStatusClient *)
(* (requestPage, pages, stream) with its retry loop, per-attempt timeout   *)
(* timer, abort listener and backoff sleep.  One traversal is modelled at  *)
(* the granularity of the JavaScript event loop: every action is one run   *)
(* of synchronous code between two suspension points (await / yield), or   *)
(* one event of the environment (server response, timer, caller abort).    *)
(* Other parts of the library are modelled beside it, each with its own    *)
(* specification: computeDelay called on its own (SpecDelay), one          *)
(* fetchPage call of the BaselineAPI class (SpecApi), the query builder    *)
(* q() (SpecQuery, SpecClone), normalizeQuery (SpecNorm), two traversals   *)
(* on one client with a clock (SpecPair), and the four functions that      *)
(* collect a whole listing with the lookups by id over them (SpecDrain).   *)
(* SpecAnyRetry and SpecQueryParam run the traversal of Spec with a retry  *)
(* of any sign and with a query the caller goes on changing.               *)
(***************************************************************************)
EXTENDS Integers, Sequences, FiniteSets, TLC

VARIABLES
    options,            \* ClientOptions given to createWebStatusClient: [retry, timeout, jitter]
    opts,               \* RequestOptions of the traversal: [signal, retry, timeout]
    mode,               \* what the consumer called: "pages", "stream" or "features"
    pc,                 \* suspension point of the traversal
    token,              \* pages(): let token
    res,                \* pages(): const res (the page last returned by requestPage)
    itemIdx,            \* stream(): records of res already yielded
    attempt,            \* requestPage: loop counter
    timedOut,           \* requestPage: let timedOut
    timeoutId,          \* requestPage: the attempt's timer is pending
    onAbort,            \* requestPage: the abort listener is registered on opts.signal
    controllerAborted,  \* requestPage: controller.signal.aborted
    userAborted,        \* opts.signal.aborted
    resStatus,          \* status of the response whose body is being read
    lastError,          \* requestPage: let lastError
    error,              \* the error surfaced to the consumer
    sleepMs,            \* delay of the backoff sleep in progress
    requestLog,         \* history: page_token of every network request issued
    served,             \* history: pages returned by the server in 2xx responses that parsed
    received,           \* history: records handed to the consumer, in order
    callRequests,       \* history: network requests issued by the current requestPage call
    callSleeps,         \* history: backoff sleeps started by the current requestPage call
    callOnly503,        \* history: every attempt of the current call so far ended with status 503
    cancelledFirst,     \* history: the caller aborted while a request was in flight, timer not fired
    abortAfterFirst,    \* history: the caller aborted after page 1 (records and token) was delivered
    anyFailure,         \* history: some attempt of the traversal did not end in a parsed page
    inFlight,           \* history: $fetch calls of the traversal that have not settled
    queryLog,           \* history: the q parameter of every network request issued
    dArgs,              \* computeDelay called on its own: [attempt, base, factor, max, jitter]
    dOut,               \* computeDelay called on its own: the value returned, <<>> before the call
    apiOptions,         \* BaselineAPI: the constructor's options [retry, timeout]
    apiPc,              \* BaselineAPI.fetchPage: suspension point
    apiAttempt,         \* BaselineAPI.fetchPage: loop counter
    apiAborted,         \* BaselineAPI.fetchPage: controller.signal.aborted of the attempt
    apiTimers,          \* BaselineAPI.fetchPage: the attempts whose setTimeout is pending
    apiStatus,          \* BaselineAPI.fetchPage: httpResponse.status, 0 before a response
    apiError,           \* BaselineAPI.fetchPage: the error thrown to the caller
    apiSleepMs,         \* BaselineAPI.fetchPage: delay of the sleep in progress
    apiRequests,        \* history: fetch calls made by the fetchPage call
    terms,              \* q(): const terms of the builder
    rendered,           \* the string returned by toString(), if called since the last append
    calls,              \* history: the builder's methods called, with their arguments
    copyRef,            \* clone(): the terms array the returned builder pushes to, 0 before
    copyTerms,          \* clone(): const terms of the builder made by const copy = q()
    copyCalls,          \* history: the methods called on the clone
    clonedAt,           \* history: number of calls on the original when clone() was called
    input,              \* normalizeQuery: the argument [kind, str, obj, terms]
    normalized,         \* normalizeQuery: the string returned, if called
    frame,              \* two traversals: the variables of each one's requestPage and pages
                        \*   activation [attempt, timedOut, timeoutId, aborted, token, left,
                        \*   resStatus]
    trav,               \* two traversals: each one's [opts, pc, error, sleepMs] and its
                        \*   history [log, got, since]
    srv,                \* the drains: the listing the server holds, page by page
    drain,              \* the drains: each one's loop variables [pc, token, out, attempt] and the
                        \*   history log of the page tokens it requested
    lookupOut           \* the lookups by id: what each returned to its caller

confVars == <<options, opts, mode>>
genVars  == <<token, res, itemIdx>>
callVars == <<attempt, timedOut, timeoutId, onAbort, controllerAborted, resStatus,
              lastError, error, sleepMs>>
histVars == <<requestLog, served, received, callRequests, callSleeps, callOnly503,
              cancelledFirst, abortAfterFirst, anyFailure, inFlight>>
travVars == <<confVars, genVars, callVars, histVars, pc, userAborted, queryLog>>
delayVars == <<dArgs, dOut>>
apiVars == <<apiOptions, apiPc, apiAttempt, apiAborted, apiTimers, apiStatus, apiError,
             apiSleepMs, apiRequests>>
cloneVars == <<copyRef, copyTerms, copyCalls, clonedAt>>
queryVars == <<terms, rendered, calls, cloneVars>>
\* the state outside the traversal
normVars == <<input, normalized>>
pairVars == <<frame, trav>>
drainVars == <<srv, drain, lookupOut>>
otherVars == <<delayVars, apiVars, queryVars, pairVars, drainVars>>
vars == <<travVars, normVars, otherVars>>

----------------------------------------------------------------------------
(* Bounds of the model *)

MaxPages    == 2        \* pages the server returns in one traversal
MaxRecs     == 2        \* records per page
RandDen     == 3        \* Math.random() takes the values 0/RandDen .. (RandDen-1)/RandDen
MaxAttempt  == 3        \* largest attempt index given to computeDelay called on its own
MaxCalls    == 3        \* methods called on one query builder
TimeoutTicks == 2       \* the per-attempt timeout in ticks of the clock of two traversals

(* Program constants: DEFAULTS *)

DEFAULTS_timeout       == 30000
DEFAULTS_retry         == 3
DEFAULTS_backoff_base   == 300
DEFAULTS_backoff_factor == 2
DEFAULTS_backoff_max    == 5000
DEFAULTS_backoff_jitter == TRUE

(* Program constants: the defaults of the BaselineAPI constructor *)

API_timeout == 30000
API_retry   == 3

----------------------------------------------------------------------------
(* Values *)

Undefined == <<>>                       \* an omitted option
Some(v)   == <<v>>                      \* a given option

NoToken  == "undefined"                 \* metadata.next_page_token absent
Tokens   == {"t1", "t2"}

Statuses == {200, 404, 429, 500, 503}

Err(name, status, ms) == [name |-> name, status |-> status, ms |-> ms]
NoError        == Err("none", 0, 0)
AbortError     == Err("AbortError", 0, 0)
TransportError == Err("TypeError", 0, 0)
SyntaxError    == Err("SyntaxError", 0, 0)
UnknownFailure == Err("Error: Unknown request failure", 0, 0)
HTTPError(status) == Err("HTTPError", status, 0)
TimeoutError(ms)  == Err("TimeoutError", 0, ms)

NoPage == [data |-> <<>>, next |-> NoToken]

\* the records of the k-th page the server returns, n of them, in server order
PageData(k, n) == [i \in 1..n |-> <<k, i>>]

RECURSIVE Pow(_, _)
Pow(b, e) == IF e <= 0 THEN 1 ELSE b * Pow(b, e - 1)       \* Math.pow, integer case

\* a non-negative number is a fraction <<numerator, denominator>>, denominator > 0
Q(n) == <<n, 1>>
QLe(a, b) == a[1] * b[2] <= b[1] * a[2]
QEq(a, b) == a[1] * b[2] = b[1] * a[2]
QMul(a, b) == <<a[1] * b[1], a[2] * b[2]>>
QPow(a, e) == <<Pow(a[1], e), Pow(a[2], e)>>               \* Math.pow(a, e), e = 0, 1, ..
QMin(a, b) == IF QLe(b, a) THEN b ELSE a                   \* Math.min

Min(a, b) == IF a < b THEN a ELSE b
Max(a, b) == IF a > b THEN a ELSE b

\* Math.round(n / d) for n >= 0, d > 0: halves round up
RoundDiv(n, d) == (2 * n + d) \div (2 * d)

IsPrefix(s, t) == Len(s) <= Len(t) /\ SubSeq(t, 1, Len(s)) = s

RECURSIVE Concat(_)
Concat(ps) == IF ps = <<>> THEN <<>> ELSE ps[1].data \o Concat(Tail(ps))

----------------------------------------------------------------------------
(* Pure helpers of the client *)

\* a ?? b
Coalesce(a, b) == IF a = Undefined THEN b ELSE a[1]

\* !token is false
Truthy(t) == t # NoToken

\* res.ok
ResOk(status) == status >= 200 /\ status <= 299

isRetryableStatus(code) == code = 429 \/ (code >= 500 /\ code <= 599)

\* variant of computeDelay: the jitter takes up to half of the delay
computeDelay_wideJitter(att, base, factor, max, jitter, rnd) ==
    LET prod == QMul(base, QPow(factor, att))
        exp  == QMin(max, Q(RoundDiv(prod[1], prod[2])))
        sway == RoundDiv(exp[1] * 5 * rnd, exp[2] * 10 * RandDen)
    IN  IF ~jitter THEN exp ELSE <<Max(0, exp[1] - sway * exp[2]), exp[2]>>

\* variant of computeDelay: the exponential delay is not capped by max
computeDelay_uncapped(att, base, factor, max, jitter, rnd) ==
    LET prod == QMul(base, QPow(factor, att))
        exp  == Q(RoundDiv(prod[1], prod[2]))
        sway == RoundDiv(exp[1] * 2 * rnd, exp[2] * 10 * RandDen)
    IN  IF ~jitter THEN exp ELSE <<Max(0, exp[1] - sway * exp[2]), exp[2]>>

\* computeDelay with Math.random() = rnd / RandDen; base, factor and max are fractions,
\* and so is the result
computeDelay(att, base, factor, max, jitter, rnd) ==
    LET prod == QMul(base, QPow(factor, att))
        exp  == QMin(max, Q(RoundDiv(prod[1], prod[2])))
        sway == RoundDiv(exp[1] * 2 * rnd, exp[2] * 10 * RandDen)
    IN  IF ~jitter THEN exp ELSE <<Max(0, exp[1] - sway * exp[2]), exp[2]>>

\* createWebStatusClient: const defaultTimeout, defaultRetry, backoff
defaultTimeout == Coalesce(options.timeout, DEFAULTS_timeout)
defaultRetry   == Coalesce(options.retry, DEFAULTS_retry)
backoff        == [base   |-> Q(DEFAULTS_backoff_base),
                   factor |-> Q(DEFAULTS_backoff_factor),
                   max    |-> Q(DEFAULTS_backoff_max),
                   jitter |-> Coalesce(options.jitter, DEFAULTS_backoff_jitter)]

\* a || b for numbers: 0 is replaced too
FalsyOr(a, b) == IF a = Undefined \/ a[1] = 0 THEN b ELSE a[1]

\* variant of retry: "opts.retry || defaultRetry"
retry_falsy == FalsyOr(opts.retry, defaultRetry)

\* requestPage: const retry, const timeout
retry   == Coalesce(opts.retry, defaultRetry)

\* variant of timeout: "opts.timeout || defaultTimeout"
timeout_falsy == FalsyOr(opts.timeout, defaultTimeout)

timeout == Coalesce(opts.timeout, defaultTimeout)

\* variant of LoopCond: the loop stops one attempt early
LoopCond_strict(att, r) == att < r

\* requestPage: the for loop's condition
LoopCond(att, r) == att <= r

\* variant of CanRetry: the last retry is given up
CanRetry_short(att, r) == att + 1 < r

\* requestPage: "attempt < retry", the guard of every backoff sleep
CanRetry(att, r) == att < r

\* variant of PreAborted: the signal is not looked at before an attempt
PreAborted_never(hasSignal, aborted) == FALSE

\* requestPage: "userSignal && userSignal.aborted" at the start of an attempt
PreAborted(hasSignal, aborted) == hasSignal /\ aborted

\* variant of PagesBreak: the loop always ends after the first page
PagesBreak_always(t, data) == TRUE

\* variant of PagesBreak: an empty page with a token does not end the loop
PagesBreak_tokenOnly(t, data) == ~Truthy(t)

\* pages: the break condition of the do-while loop
PagesBreak(t, data) == ~Truthy(t) \/ Len(data) = 0

----------------------------------------------------------------------------
(* The query builder q() and normalizeQuery: their pure parts.  A string is a        *)
(* sequence of symbols.  A symbol is one character the builder looks at (a white     *)
(* space, the double quote, the colon, a parenthesis, the backslash), one other      *)
(* character outside ASCII, or a run of other ASCII characters.  A character of      *)
(* ASCII is written as itself; a character outside ASCII is written as the name of   *)
(* its code point, "U+00A0" for the no-break space, and no run of ASCII characters   *)
(* in the model begins with "U+".  The vertical tab, a character of ASCII with no    *)
(* escape in a string, is written either way.                                        *)

DQ == "\""
BS == "\\"

\* /\s/ of the regular expression in quote, and the characters String.prototype.trim
\* removes: WhiteSpace and LineTerminator of ECMAScript.  WhiteSpace is the tab U+0009,
\* the vertical tab U+000B, the form feed U+000C, the byte order mark U+FEFF and the
\* space separators of Unicode (U+0020, U+00A0, U+1680, U+2000 to U+200A, U+202F,
\* U+205F, U+3000); LineTerminator is the line feed U+000A, the carriage return
\* U+000D, the line separator U+2028 and the paragraph separator U+2029.  Every other
\* character is none: the next line U+0085, the Mongolian vowel separator U+180E and
\* the zero width space U+200B among them.
IsSpace(c) ==
    c \in {"\t", "\n", "", "U+000B", "\f", "\r", " ", "U+00A0", "U+1680",
           "U+2000", "U+2001", "U+2002", "U+2003", "U+2004", "U+2005", "U+2006",
           "U+2007", "U+2008", "U+2009", "U+200A", "U+2028", "U+2029", "U+202F",
           "U+205F", "U+3000", "U+FEFF"}

\* String.prototype.trim
RECURSIVE trimStart(_)
trimStart(t) == IF t # <<>> /\ IsSpace(Head(t)) THEN trimStart(Tail(t)) ELSE t
RECURSIVE trimEnd(_)
trimEnd(t) ==
    IF t # <<>> /\ IsSpace(t[Len(t)]) THEN trimEnd(SubSeq(t, 1, Len(t) - 1)) ELSE t
\* variant of trim: String.prototype.trimStart
trim_start(t) == trimStart(t)

trim(t) == trimEnd(trimStart(t))

\* variant of push: the term is stored as given, neither trimmed nor dropped when blank
push_asGiven(ts, t) == IF t = <<>> THEN ts ELSE Append(ts, t)

\* variant of push: a term the builder holds already is not appended again
push_once(ts, t) ==
    IF t = <<>> THEN ts
    ELSE LET tt == trim(t)
         IN  IF tt # <<>> /\ ~(\E i \in 1..Len(ts) : ts[i] = tt) THEN Append(ts, tt) ELSE ts

\* q: const push, on the terms ts
push(ts, t) ==
    IF t = <<>> THEN ts
    ELSE LET tt == trim(t) IN IF tt # <<>> THEN Append(ts, tt) ELSE ts

\* variant of escapeQuotes: only the first double quote is replaced (no /g flag)
RECURSIVE escapeQuotes_first(_)
escapeQuotes_first(v) ==
    IF v = <<>> THEN <<>>
    ELSE IF Head(v) = DQ THEN <<BS, DQ>> \o Tail(v)
    ELSE <<Head(v)>> \o escapeQuotes_first(Tail(v))

\* quote: v.replace(/"/g, '\\"')
RECURSIVE escapeQuotes(_)
escapeQuotes(v) ==
    IF v = <<>> THEN <<>>
    ELSE (IF Head(v) = DQ THEN <<BS, DQ>> ELSE <<Head(v)>>) \o escapeQuotes(Tail(v))

\* q: const quote
quote(v) ==
    IF ~(\E i \in 1..Len(v) : v[i] = DQ \/ IsSpace(v[i]) \/ v[i] \in {":", "(", ")"})
      THEN v
      ELSE <<DQ>> \o escapeQuotes(v) \o <<DQ>>

\* Array.prototype.join
RECURSIVE join(_, _)
join(ts, sep) ==
    IF ts = <<>> THEN <<>>
    ELSE IF Len(ts) = 1 THEN ts[1]
    ELSE ts[1] \o sep \o join(Tail(ts), sep)

\* variant of toString: the terms are joined with " OR "
toString_or(ts) == join(ts, <<" ", "OR", " ">>)

\* api.toString
toString(ts) == join(ts, <<" ", "AND", " ">>)

\* the term each method pushes
baseline(ts, status) == push(ts, <<"baseline_status", ":">> \o status)
range(ts, start, end) == push(ts, <<"baseline_date", ":">> \o start \o <<"..">> \o end)
id(ts, v)       == push(ts, <<"id", ":">> \o quote(v))
group(ts, v)    == push(ts, <<"group", ":">> \o quote(v))
snapshot(ts, v) == push(ts, <<"snapshot", ":">> \o quote(v))
custom(ts, qStr) == push(ts, qStr)
andRaw(ts, term) == push(ts, term)

\* an optional string field of a FeatureQuery is truthy: given and not ""
Given(f) == f # Undefined /\ f[1] # <<>>

\* typeof x[m] === "function": every string and object has toString, from its
\* prototype; only a builder has clone
HasFunction(x, m) ==
    CASE m = "toString" -> x.kind \in {"string", "object", "builder"}
      [] m = "clone"    -> x.kind = "builder"
      [] OTHER          -> FALSE

\* !!x
TruthyInput(x) == x.kind # "undefined" /\ (x.kind = "string" => x.str # <<>>)

\* variant of isQueryBuilder: clone is not asked for
isQueryBuilder_noClone(x) == TruthyInput(x) /\ HasFunction(x, "toString")

isQueryBuilder(x) ==
    TruthyInput(x) /\ HasFunction(x, "toString") /\ HasFunction(x, "clone")

\* x.toString(): the builder's rendering, Object.prototype.toString of a plain object,
\* the string itself
InputToString(x) ==
    CASE x.kind = "builder" -> toString(x.terms)
      [] x.kind = "object"  -> <<"[object Object]">>
      [] OTHER              -> x.str

\* q(initial): the terms of the builder returned
q(initial) ==
    IF initial.kind = "string" THEN custom(<<>>, initial.str)
    ELSE IF isQueryBuilder(initial) THEN custom(<<>>, InputToString(initial))
    ELSE IF initial.kind = "object" THEN
        LET i  == initial.obj
            t1 == IF Given(i.baselineStatus) THEN baseline(<<>>, i.baselineStatus[1])
                  ELSE <<>>
            t2 == IF i.baselineDateRange # Undefined
                    THEN range(t1, i.baselineDateRange[1].start, i.baselineDateRange[1].end)
                    ELSE t1
            t3 == IF Given(i.featureId) THEN id(t2, i.featureId[1]) ELSE t2
            t4 == IF Given(i.group) THEN group(t3, i.group[1]) ELSE t3
            t5 == IF Given(i.snapshot) THEN snapshot(t4, i.snapshot[1]) ELSE t4
        IN  IF i.customQuery # Undefined /\ trim(i.customQuery[1]) # <<>>
              THEN custom(t5, i.customQuery[1])
              ELSE t5
    ELSE <<>>

normalizeQuery(x) ==
    IF ~TruthyInput(x) THEN <<>>
    ELSE IF x.kind = "string" THEN trim(x.str)
    ELSE IF isQueryBuilder(x) THEN InputToString(x)
    ELSE toString(q(x))

----------------------------------------------------------------------------
(* Initial state: a client and a traversal that the consumer has not pulled *)

\* the clients: one built with no options, one with every option given, one with
\* retries switched off
ClientOptionsSet ==
    { [retry |-> Undefined, timeout |-> Undefined, jitter |-> Undefined],
      [retry |-> Some(1),   timeout |-> Some(20),  jitter |-> Some(FALSE)],
      [retry |-> Some(0),   timeout |-> Undefined, jitter |-> Undefined] }

\* the per-call overrides
CallRetryOpts   == {Undefined, Some(0), Some(2)}
CallTimeoutOpts == {Undefined, Some(0)}

\* computeDelay is not called on its own
DelayIdle ==
    /\ dArgs = [attempt |-> 0, base |-> Q(0), factor |-> Q(0), max |-> Q(0), jitter |-> FALSE]
    /\ dOut = <<>>

\* a traversal that the consumer has not pulled
TraversalStart ==
    /\ pc = "start"
    /\ token = NoToken
    /\ res = NoPage
    /\ itemIdx = 0
    /\ attempt = 0
    /\ timedOut = FALSE
    /\ timeoutId = FALSE
    /\ onAbort = FALSE
    /\ controllerAborted = FALSE
    /\ userAborted = FALSE
    /\ resStatus = 0
    /\ lastError = NoError
    /\ error = NoError
    /\ sleepMs = Q(0)
    /\ requestLog = <<>>
    /\ served = <<>>
    /\ received = <<>>
    /\ callRequests = 0
    /\ callSleeps = 0
    /\ callOnly503 = TRUE
    /\ cancelledFirst = FALSE
    /\ abortAfterFirst = FALSE
    /\ anyFailure = FALSE
    /\ inFlight = 0
    /\ queryLog = <<>>

\* a BaselineAPI made with no options, fetchPage not called
ApiStart ==
    /\ apiPc = "idle"
    /\ apiAttempt = 0
    /\ apiAborted = FALSE
    /\ apiTimers = {}
    /\ apiStatus = 0
    /\ apiError = NoError
    /\ apiSleepMs = 0
    /\ apiRequests = 0

ApiIdle ==
    /\ apiOptions = [retry |-> Undefined, timeout |-> Undefined]
    /\ ApiStart

\* q() with no argument, no method called
QueryIdle ==
    /\ terms = <<>>
    /\ rendered = [called |-> FALSE, str |-> <<>>]
    /\ calls = <<>>
    /\ copyRef = 0
    /\ copyTerms = <<>>
    /\ copyCalls = <<>>
    /\ clonedAt = 0

\* an absent FeatureQuery: no field given
NoObj == [baselineStatus |-> Undefined, baselineDateRange |-> Undefined,
          featureId |-> Undefined, group |-> Undefined, snapshot |-> Undefined,
          customQuery |-> Undefined]

\* the shapes of a QueryInput: undefined, a string, a FeatureQuery object, a builder
\* (given by the terms it holds)
InUndefined   == [kind |-> "undefined", str |-> <<>>, obj |-> NoObj, terms |-> <<>>]
InString(s)   == [kind |-> "string", str |-> s, obj |-> NoObj, terms |-> <<>>]
InObject(o)   == [kind |-> "object", str |-> <<>>, obj |-> o, terms |-> <<>>]
InBuilder(ts) == [kind |-> "builder", str |-> <<>>, obj |-> NoObj, terms |-> ts]

\* normalizeQuery not called
NormIdle ==
    /\ input = InUndefined
    /\ normalized = [called |-> FALSE, str |-> <<>>]

\* the two traversals run side by side on one client
T == {1, 2}

\* the variables of an activation before its first attempt
FrameStart == [attempt |-> 0, timedOut |-> FALSE, timeoutId |-> FALSE, aborted |-> FALSE,
               token |-> NoToken, left |-> TimeoutTicks, resStatus |-> 0]

\* a traversal with the per-call option retry = r that the consumer has not pulled
TravStart(r) == [opts |-> [retry |-> r], pc |-> "ready", error |-> NoError, sleepMs |-> Q(0),
                 log |-> <<>>, got |-> <<>>, since |-> 0]

\* no second traversal
PairIdle ==
    /\ frame = [t \in T |-> FrameStart]
    /\ trav = [t \in T |-> TravStart(Undefined)]

\* the four functions that collect every page of a listing: features of
\* createWebStatusClient, WebStatusClient.fetchAllFeatures, fetchFeatures of the
\* BaselineAPI class and fetchAllPages of the standalone BaselineAPI
Drains == <<"features", "fetchAllFeatures", "fetchFeatures", "fetchAllPages">>
DrainSet == {Drains[i] : i \in 1..Len(Drains)}

\* the lookups by id, and the drain each one calls
Lookups == {"feature", "byId", "byIdStandalone"}
LookupOver == [feature |-> "features", byId |-> "fetchFeatures",
               byIdStandalone |-> "fetchAllPages"]

\* a drain not called, a lookup not returned
DrainStart == [pc |-> "idle", token |-> NoToken, out |-> <<>>, log |-> <<>>, attempt |-> 0]
Pending == [kind |-> "pending", v |-> <<>>]

\* no drain is called, the server holds one page with no record
DrainIdle ==
    /\ srv = <<[fails |-> FALSE, n |-> 0, more |-> FALSE, meta |-> TRUE, ids |-> TRUE]>>
    /\ drain = [d \in DrainSet |-> DrainStart]
    /\ lookupOut = [w \in Lookups |-> Pending]

\* the RequestOptions of the traversal: a signal or a per-call timeout or neither, with
\* every per-call retry
RequestOptionsSet ==
    {o \in [signal : BOOLEAN, retry : CallRetryOpts, timeout : CallTimeoutOpts] :
        o.signal => o.timeout = Undefined}

\* the client with retries switched off is called without a per-call retry, which
\* would make it behave as the client built with no options
Init ==
    /\ options \in ClientOptionsSet
    /\ opts \in RequestOptionsSet
    /\ options.retry = Some(0) => opts.retry = Undefined
    /\ mode \in {"pages", "stream", "features"}
    /\ TraversalStart
    /\ DelayIdle
    /\ ApiIdle
    /\ QueryIdle
    /\ NormIdle
    /\ PairIdle
    /\ DrainIdle

----------------------------------------------------------------------------
(* requestPage: pieces shared by several suspension points *)

\* the head of one loop iteration, up to "await $fetch(...)"; att > retry leaves the
\* loop and reaches the final throw
StartAttempt(att, tok, le, n) ==
    /\ attempt' = att
    /\ resStatus' = 0
    /\ sleepMs' = Q(0)
    /\ lastError' = le
    /\ controllerAborted' = FALSE
    /\ IF ~LoopCond(att, retry) THEN
            /\ pc' = "failed"
            /\ error' = (IF le = NoError THEN UnknownFailure ELSE le)
            /\ timedOut' = timedOut
            /\ timeoutId' = FALSE
            /\ onAbort' = FALSE
            /\ requestLog' = requestLog
            /\ callRequests' = n
            /\ anyFailure' = TRUE
            /\ inFlight' = inFlight
       ELSE IF PreAborted(opts.signal, userAborted) THEN
            /\ pc' = "failed"
            /\ error' = AbortError
            /\ timedOut' = FALSE
            /\ timeoutId' = FALSE
            /\ onAbort' = FALSE
            /\ requestLog' = requestLog
            /\ callRequests' = n
            /\ anyFailure' = TRUE
            /\ inFlight' = inFlight
       ELSE
            /\ pc' = "inflight"
            /\ error' = error
            /\ timedOut' = FALSE
            /\ timeoutId' = TRUE
            /\ onAbort' = opts.signal
            /\ requestLog' = Append(requestLog, tok)
            /\ callRequests' = n + 1
            /\ anyFailure' = anyFailure
            /\ inFlight' = inFlight + 1

\* "await sleep(delay); continue"
Sleep(le) ==
    /\ pc' = "sleeping"
    /\ \E rnd \in 0..(RandDen - 1) :
          sleepMs' = computeDelay(attempt, backoff.base, backoff.factor, backoff.max,
                                  backoff.jitter, rnd)
    /\ callSleeps' = callSleeps + 1
    /\ lastError' = le
    /\ error' = error

\* variant of Throw: the failure is swallowed and the traversal ends normally
Throw_swallow(e, le) ==
    /\ pc' = "done"
    /\ sleepMs' = Q(0)
    /\ callSleeps' = callSleeps
    /\ lastError' = le
    /\ error' = NoError

\* an error leaves requestPage and reaches the consumer
Throw(e, le) ==
    /\ pc' = "failed"
    /\ sleepMs' = Q(0)
    /\ callSleeps' = callSleeps
    /\ lastError' = le
    /\ error' = e

\* variant of Catch: lastError keeps the first error of the call ("lastError ??= err")
Catch_keepFirst(err) ==
    /\ timeoutId' = FALSE
    /\ onAbort' = FALSE
    /\ IF timedOut THEN
            IF CanRetry(attempt, retry) THEN Sleep(lastError)
            ELSE Throw(TimeoutError(timeout), lastError)
       ELSE IF err.name = "AbortError" THEN Throw(err, lastError)
       ELSE LET le == IF lastError = NoError THEN err ELSE lastError
            IN  IF CanRetry(attempt, retry) THEN Sleep(le) ELSE Throw(le, le)

\* variant of Catch: the timer and the listener of the attempt are left as they are
Catch_keepsTimer(err) ==
    /\ UNCHANGED <<timeoutId, onAbort>>
    /\ IF timedOut THEN
            IF CanRetry(attempt, retry) THEN Sleep(lastError)
            ELSE Throw(TimeoutError(timeout), lastError)
       ELSE IF err.name = "AbortError" THEN Throw(err, lastError)
       ELSE IF CanRetry(attempt, retry) THEN Sleep(err)
       ELSE Throw(err, err)

\* the catch block of the attempt
Catch(err) ==
    /\ timeoutId' = FALSE
    /\ onAbort' = FALSE
    /\ IF timedOut THEN
            IF CanRetry(attempt, retry) THEN Sleep(lastError)
            ELSE Throw(TimeoutError(timeout), lastError)
       ELSE IF err.name = "AbortError" THEN Throw(err, lastError)
       ELSE IF CanRetry(attempt, retry) THEN Sleep(err)
       ELSE Throw(err, err)

\* requestPage returns the page: its locals are gone, pages is suspended at its yield
Return ==
    /\ attempt' = 0
    /\ resStatus' = 0
    /\ lastError' = NoError
    /\ callRequests' = 0
    /\ callSleeps' = 0
    /\ callOnly503' = TRUE
    /\ UNCHANGED <<token, timedOut, timeoutId, onAbort, controllerAborted, error, sleepMs,
                   requestLog, anyFailure, inFlight>>

\* pages: a new requestPage call for the page behind tok
NewCall(tok) ==
    /\ callSleeps' = 0
    /\ callOnly503' = TRUE
    /\ StartAttempt(0, tok, NoError, 0)

\* pages: the generator returns, and with it stream
Finish ==
    /\ pc' = "done"
    /\ UNCHANGED <<callVars, requestLog, callRequests, callSleeps, callOnly503, anyFailure,
                   inFlight>>

\* variant of ResumePages: the next request is made without the token
ResumePages_noToken(p) ==
    /\ token' = p.next
    /\ IF PagesBreak(p.next, p.data) THEN Finish ELSE NewCall(NoToken)

\* pages: resumed after "yield res" for page p
ResumePages(p) ==
    /\ token' = p.next
    /\ IF PagesBreak(p.next, p.data) THEN Finish ELSE NewCall(p.next)

----------------------------------------------------------------------------
(* The consumer pulls *)

\* variant of StreamExhausted: pages is resumed at every pull, records yielded or not
StreamExhausted_always(idx, data) == TRUE

\* variant of StreamExhausted: pages is resumed while one record is still to be yielded
StreamExhausted_prefetch(idx, data) == idx + 1 >= Len(data)

\* stream: the inner loop over page.data has yielded every record, so the next pull
\* resumes pages
StreamExhausted(idx, data) == idx >= Len(data)

\* stream: the consumer's next() finds a record of the current page not yet yielded
PullItem ==
    /\ pc = "ready"
    /\ mode = "stream"
    /\ itemIdx < Len(res.data)
    /\ received' = Append(received, res.data[itemIdx + 1])
    /\ itemIdx' = itemIdx + 1
    /\ UNCHANGED <<otherVars, normVars, queryLog, confVars, callVars, pc, userAborted, token, res, requestLog, served,
                   callRequests, callSleeps, callOnly503,
                   cancelledFirst, abortAfterFirst, anyFailure, inFlight>>

\* variant of qstr: the caller's input is normalized again for every request
qstr_live == normalizeQuery(input)

\* pages: const qstr, the q parameter requestPage puts into the URL
qstr == normalized.str

\* history: the q of the request, if the step issued one
LogQuery(qv) ==
    queryLog' = IF Len(requestLog') > Len(requestLog) THEN Append(queryLog, qv) ELSE queryLog

\* the first next(): pages starts, normalizes the query and calls requestPage without
\* a token
PullFirst ==
    /\ pc = "start"
    /\ UNCHANGED input
    /\ normalized' = [called |-> TRUE, str |-> normalizeQuery(input)]
    /\ token' = NoToken
    /\ NewCall(NoToken)
    /\ LogQuery(qstr')
    /\ UNCHANGED <<otherVars, confVars, userAborted, res, itemIdx, served, received,
                   cancelledFirst, abortAfterFirst>>

\* a later next(), every record of the current page being yielded: pages resumes
\* after its yield
PullNext ==
    /\ pc = "ready"
    /\ mode = "stream" => StreamExhausted(itemIdx, res.data)
    /\ ResumePages(res)
    /\ LogQuery(qstr)
    /\ UNCHANGED <<otherVars, normVars, confVars, userAborted, res, itemIdx, served, received,
                   cancelledFirst, abortAfterFirst>>

----------------------------------------------------------------------------
(* The environment: the caller's signal, the timer, the server *)

\* the model follows a traversal until the request after its MaxPages-th page is
\* issued: that request stays pending
WithinBound == Len(served) < MaxPages

\* the caller aborts opts.signal; a registered listener aborts the controller
UserAbort ==
    /\ opts.signal
    /\ ~userAborted
    /\ pc \notin {"done", "failed"}
    /\ pc = "inflight" => WithinBound
    /\ userAborted' = TRUE
    /\ controllerAborted' = (controllerAborted \/ onAbort)
    /\ cancelledFirst' = (cancelledFirst \/ (pc = "inflight" /\ onAbort /\ ~timedOut))
    /\ abortAfterFirst' = (abortAfterFirst \/
                             (pc = "ready" /\ Len(served) = 1 /\ Len(res.data) > 0
                                /\ Truthy(res.next)))
    /\ UNCHANGED <<otherVars, normVars, queryLog, confVars, genVars, pc, attempt, timedOut, timeoutId, onAbort, resStatus,
                   lastError, error, sleepMs, requestLog, served, received, callRequests,
                   callSleeps, callOnly503, anyFailure, inFlight>>

\* the setTimeout callback of the attempt
TimerFires ==
    /\ pc = "inflight"
    /\ WithinBound
    /\ timeoutId
    /\ timedOut' = TRUE
    /\ controllerAborted' = TRUE
    /\ timeoutId' = FALSE
    /\ UNCHANGED <<otherVars, normVars, queryLog, confVars, genVars, pc, userAborted, attempt, onAbort, resStatus,
                   lastError, error, sleepMs, histVars>>

\* $fetch resolves with a non-2xx response: the body is read next
FetchRespondsError ==
    /\ pc = "inflight"
    /\ WithinBound
    /\ ~controllerAborted
    /\ \E status \in Statuses :
          /\ ~ResOk(status)
          /\ resStatus' = status
          /\ callOnly503' = (callOnly503 /\ status = 503)
    /\ timeoutId' = FALSE
    /\ onAbort' = FALSE
    /\ pc' = "readingBody"
    /\ anyFailure' = TRUE
    /\ inFlight' = inFlight - 1
    /\ UNCHANGED <<otherVars, normVars, queryLog, confVars, genVars, userAborted, attempt, timedOut, controllerAborted,
                   lastError, error, sleepMs, requestLog, served, received, callRequests,
                   callSleeps, cancelledFirst, abortAfterFirst>>

\* $fetch resolves with a 2xx response: res.json() is awaited next
FetchRespondsOk ==
    /\ pc = "inflight"
    /\ WithinBound
    /\ ~controllerAborted
    /\ \E status \in Statuses :
          /\ ResOk(status)
          /\ resStatus' = status
    /\ callOnly503' = FALSE
    /\ timeoutId' = FALSE
    /\ onAbort' = FALSE
    /\ pc' = "parsing"
    /\ inFlight' = inFlight - 1
    /\ UNCHANGED <<otherVars, normVars, queryLog, confVars, genVars, userAborted, attempt, timedOut, controllerAborted,
                   lastError, error, sleepMs, requestLog, served, received, callRequests,
                   callSleeps, cancelledFirst, abortAfterFirst, anyFailure>>

\* $fetch rejects before any status is known (connection refused, reset)
FetchRejects ==
    /\ pc = "inflight"
    /\ WithinBound
    /\ ~controllerAborted
    /\ Catch(TransportError)
    /\ callOnly503' = FALSE
    /\ anyFailure' = TRUE
    /\ inFlight' = inFlight - 1
    /\ UNCHANGED <<otherVars, normVars, queryLog, confVars, genVars, userAborted, attempt, timedOut, controllerAborted,
                   resStatus, requestLog, served, received, callRequests,  cancelledFirst, abortAfterFirst>>

\* $fetch rejects with AbortError because controller.signal was aborted
FetchAborted ==
    /\ pc = "inflight"
    /\ WithinBound
    /\ controllerAborted
    /\ Catch(AbortError)
    /\ callOnly503' = FALSE
    /\ anyFailure' = TRUE
    /\ inFlight' = inFlight - 1
    /\ UNCHANGED <<otherVars, normVars, queryLog, confVars, genVars, userAborted, attempt, timedOut, controllerAborted,
                   resStatus, requestLog, served, received, callRequests,  cancelledFirst, abortAfterFirst>>

----------------------------------------------------------------------------
(* requestPage resumes *)

\* the body of a non-2xx response has been read: retry or throw the HTTPError,
\* which the catch block of the same attempt receives
BodyRead ==
    /\ pc = "readingBody"
    /\ IF CanRetry(attempt, retry) /\ isRetryableStatus(resStatus)
         THEN Sleep(lastError) /\ UNCHANGED <<timeoutId, onAbort>>
         ELSE Catch(HTTPError(resStatus))
    /\ UNCHANGED <<otherVars, normVars, queryLog, confVars, genVars, userAborted, attempt, timedOut, controllerAborted,
                   resStatus, requestLog, served, received, callRequests, callOnly503,
                   cancelledFirst, abortAfterFirst, anyFailure, inFlight>>

\* res.json() rejects on a 2xx response
ParseFail ==
    /\ pc = "parsing"
    /\ Catch(SyntaxError)
    /\ anyFailure' = TRUE
    /\ UNCHANGED <<otherVars, normVars, queryLog, confVars, genVars, userAborted, attempt, timedOut, controllerAborted,
                   resStatus, requestLog, served, received, callRequests, callOnly503,
                   cancelledFirst, abortAfterFirst, inFlight>>

\* variant of Drain: the list is started again with every page
Drain_lastPage(out, data) == data

\* features: "out.push(item)" for every record of a page, in order
Drain(out, data) == out \o data

Null == "null"

\* feature: "list[0] || null" (a record is an object, never falsy)
feature(list) == IF Len(list) > 0 THEN list[1] ELSE Null

\* res.json() resolves: requestPage returns the page and pages yields it.  In stream
\* mode stream yields its first record or, the page being empty, resumes pages at once.
\* In features mode the for-await loop pushes every record as soon as it is yielded and
\* pulls again, so pages is resumed in the same run; the list in "received" is returned
\* when the traversal is done.
ParseOk ==
    /\ pc = "parsing"
    /\ \E n \in 0..MaxRecs, next \in {NoToken} \cup Tokens :
          LET page == [data |-> PageData(Len(served) + 1, n), next |-> next]
          IN  /\ res' = page
              /\ served' = Append(served, page)
              /\ IF mode = "pages" THEN
                      /\ received' = received \o page.data
                      /\ itemIdx' = Len(page.data)
                      /\ pc' = "ready"
                      /\ Return
                 ELSE IF mode = "stream" /\ Len(page.data) > 0 THEN
                      /\ received' = Append(received, page.data[1])
                      /\ itemIdx' = 1
                      /\ pc' = "ready"
                      /\ Return
                 ELSE
                      /\ received' = (IF mode = "features" THEN Drain(received, page.data)
                                      ELSE received)
                      /\ itemIdx' = Len(page.data)
                      /\ token' = page.next
                      /\ IF PagesBreak(page.next, page.data) THEN Finish
                         ELSE /\ callSleeps' = 0
                              /\ callOnly503' = TRUE
                              /\ StartAttempt(0, page.next, NoError, 0)
    /\ LogQuery(qstr)
    /\ UNCHANGED <<otherVars, normVars, confVars, userAborted, cancelledFirst, abortAfterFirst>>

\* the backoff sleep ends: "continue" increments attempt and tests the loop condition
SleepDone ==
    /\ pc = "sleeping"
    /\ StartAttempt(attempt + 1, token, lastError, callRequests)
    /\ LogQuery(qstr)
    /\ UNCHANGED <<otherVars, normVars, confVars, genVars, userAborted, served, received, callSleeps,
                   callOnly503,  cancelledFirst, abortAfterFirst>>

----------------------------------------------------------------------------

Next ==
    \/ PullItem
    \/ PullFirst
    \/ PullNext
    \/ UserAbort
    \/ TimerFires
    \/ FetchRespondsError
    \/ FetchRespondsOk
    \/ FetchRejects
    \/ FetchAborted
    \/ BodyRead
    \/ ParseFail
    \/ ParseOk
    \/ SleepDone

Spec == Init /\ [][Next]_vars

\* retry is typed "number" and passed on as given: the per-call values of a caller who
\* is not held to non-negative ones
AnyRetryOpts == {Some(-1), Some(0), Some(1)}

\* a traversal on a client made with no options, called with any retry
InitAnyRetry ==
    /\ options = [retry |-> Undefined, timeout |-> Undefined, jitter |-> Undefined]
    /\ opts \in [signal : BOOLEAN, retry : AnyRetryOpts, timeout : {Undefined}]
    /\ mode \in {"pages", "stream", "features"}
    /\ TraversalStart
    /\ DelayIdle
    /\ ApiIdle
    /\ QueryIdle
    /\ NormIdle
    /\ PairIdle
    /\ DrainIdle

SpecAnyRetry == InitAnyRetry /\ [][Next]_vars

\* the query of a traversal: undefined, a string with spaces around it, a FeatureQuery,
\* a builder with no term and one with a term
TraversalInputs ==
    {InUndefined, InString(<<" ", "a", " ">>),
     InObject([NoObj EXCEPT !.featureId = Some(<<"css">>)]),
     InBuilder(<<>>), InBuilder(id(<<>>, <<"css">>))}

\* pages(query, opts) or stream(query, opts) on a client made with no options, with one
\* retry and no signal; the caller keeps the query it passed
InitQueryParam ==
    /\ options = [retry |-> Undefined, timeout |-> Undefined, jitter |-> Undefined]
    /\ opts = [signal |-> FALSE, retry |-> Some(1), timeout |-> Undefined]
    /\ mode \in {"pages", "stream"}
    /\ TraversalStart
    /\ DelayIdle
    /\ ApiIdle
    /\ QueryIdle
    /\ PairIdle
    /\ DrainIdle
    /\ input \in TraversalInputs
    /\ normalized = [called |-> FALSE, str |-> <<>>]

\* the caller calls andRaw on the builder it passed to the traversal
CallerAppends ==
    /\ input.kind = "builder"
    /\ Len(input.terms) < MaxCalls
    /\ pc \notin {"done", "failed"}
    /\ input' = InBuilder(andRaw(input.terms, <<" ", "-", "id", ":", "x", " ">>))
    /\ UNCHANGED <<normalized, travVars, otherVars>>

NextQueryParam ==
    \/ CallerAppends
    \/ PullItem
    \/ PullFirst
    \/ PullNext
    \/ TimerFires
    \/ FetchRespondsError
    \/ FetchRespondsOk
    \/ FetchRejects
    \/ FetchAborted
    \/ BodyRead
    \/ ParseFail
    \/ ParseOk
    \/ SleepDone

SpecQueryParam == InitQueryParam /\ [][NextQueryParam]_vars

----------------------------------------------------------------------------
(* computeDelay called on its own, over base, factor and max that need not be integers *)

DelayNums == {Q(0), <<1, 2>>, Q(1), <<3, 2>>, Q(2), Q(5)}

\* a client made with no options and a traversal not started: the traversal stays so
\* while another part of the library is exercised
TraversalIdle ==
    /\ options = [retry |-> Undefined, timeout |-> Undefined, jitter |-> Undefined]
    /\ opts = [signal |-> FALSE, retry |-> Undefined, timeout |-> Undefined]
    /\ mode = "pages"
    /\ TraversalStart

InitDelay ==
    /\ TraversalIdle
    /\ dArgs \in [attempt : 0..MaxAttempt, base : DelayNums, factor : DelayNums,
                   max : DelayNums, jitter : BOOLEAN]
    /\ dOut = <<>>
    /\ ApiIdle
    /\ QueryIdle
    /\ NormIdle
    /\ PairIdle
    /\ DrainIdle

CallComputeDelay ==
    /\ dOut = <<>>
    /\ \E rnd \in 0..(RandDen - 1) :
          dOut' = computeDelay(dArgs.attempt, dArgs.base, dArgs.factor, dArgs.max,
                               dArgs.jitter, rnd)
    /\ UNCHANGED <<dArgs, travVars, pairVars, drainVars, normVars, apiVars, queryVars>>

NextDelay == CallComputeDelay

SpecDelay == InitDelay /\ [][NextDelay]_vars

----------------------------------------------------------------------------
(* The BaselineAPI class with the options {endpoint, timeout, retry}: one fetchPage call *)

ApiRetryOpts   == {Undefined, Some(0), Some(1), Some(2)}
ApiTimeoutOpts == {Undefined, Some(0), Some(20)}

\* constructor: this.retry, this.timeout
this_retry   == FalsyOr(apiOptions.retry, API_retry)
this_timeout == FalsyOr(apiOptions.timeout, API_timeout)

ApiHTTPError(status) == Err("Error: HTTP", status, 0)
ApiMaxRetries        == Err("Error: Max retries exceeded", 0, 0)

InitApi ==
    /\ TraversalIdle
    /\ DelayIdle
    /\ apiOptions \in [retry : ApiRetryOpts, timeout : ApiTimeoutOpts]
    /\ ApiStart
    /\ QueryIdle
    /\ NormIdle
    /\ PairIdle
    /\ DrainIdle

\* the head of one loop iteration, up to "await fetch(...)": a new controller, a new
\* timer beside those of earlier attempts that are still pending; past the loop the
\* final throw is reached
ApiStartAttempt(att) ==
    /\ apiAttempt' = att
    /\ apiAborted' = FALSE
    /\ apiStatus' = 0
    /\ apiSleepMs' = 0
    /\ IF att <= this_retry
         THEN /\ apiPc' = "inflight"
              /\ apiTimers' = apiTimers \cup {att}
              /\ apiRequests' = apiRequests + 1
              /\ apiError' = apiError
         ELSE /\ apiPc' = "thrown"
              /\ apiTimers' = apiTimers
              /\ apiRequests' = apiRequests
              /\ apiError' = ApiMaxRetries

\* the catch block of the attempt
ApiCatch(err) ==
    IF apiAttempt = this_retry
      THEN /\ apiPc' = "thrown"
           /\ apiError' = err
           /\ apiSleepMs' = 0
      ELSE /\ apiPc' = "sleeping"
           /\ apiError' = apiError
           /\ apiSleepMs' = 1000 * (apiAttempt + 1)

\* the caller calls fetchPage
ApiFetchPage ==
    /\ apiPc = "idle"
    /\ ApiStartAttempt(0)
    /\ UNCHANGED <<apiOptions, travVars, pairVars, drainVars, normVars, delayVars, queryVars>>

\* the setTimeout callback of an attempt aborts the controller of that attempt: of the
\* attempt in flight, or of one whose fetch rejected, which leaves its timer pending
\* (the catch block clears none) while fetchPage sleeps, tries again or has thrown
ApiTimerFires ==
    /\ \E att \in apiTimers :
          /\ apiTimers' = apiTimers \ {att}
          /\ apiAborted' = IF att = apiAttempt THEN TRUE ELSE apiAborted
    /\ UNCHANGED <<apiOptions, apiPc, apiAttempt, apiStatus, apiError, apiSleepMs,
                   apiRequests, travVars, pairVars, drainVars, normVars, delayVars, queryVars>>

\* fetch resolves: the timer of the attempt is cleared; a response that is not ok
\* throws into the catch
ApiFetchResponds ==
    /\ apiPc = "inflight"
    /\ ~apiAborted
    /\ apiTimers' = apiTimers \ {apiAttempt}
    /\ \E status \in Statuses :
          /\ apiStatus' = status
          /\ IF ResOk(status)
               THEN /\ apiPc' = "parsing"
                    /\ UNCHANGED <<apiError, apiSleepMs>>
               ELSE ApiCatch(ApiHTTPError(status))
    /\ UNCHANGED <<apiOptions, apiAttempt, apiAborted, apiRequests, travVars, pairVars, drainVars, normVars, delayVars, queryVars>>

\* fetch rejects: a transport failure, or the AbortError of the aborted controller
ApiFetchRejects ==
    /\ apiPc = "inflight"
    /\ ApiCatch(IF apiAborted THEN AbortError ELSE TransportError)
    /\ UNCHANGED <<apiOptions, apiAttempt, apiAborted, apiTimers, apiStatus, apiRequests, travVars, pairVars, drainVars, normVars,
                   delayVars, queryVars>>

\* httpResponse.json() resolves: fetchPage returns the page
ApiParseOk ==
    /\ apiPc = "parsing"
    /\ apiPc' = "returned"
    /\ UNCHANGED <<apiOptions, apiAttempt, apiAborted, apiTimers, apiStatus, apiError, apiSleepMs,
                   apiRequests, travVars, pairVars, drainVars, normVars, delayVars, queryVars>>

\* httpResponse.json() rejects
ApiParseFail ==
    /\ apiPc = "parsing"
    /\ ApiCatch(SyntaxError)
    /\ UNCHANGED <<apiOptions, apiAttempt, apiAborted, apiTimers, apiStatus, apiRequests, travVars, pairVars, drainVars, normVars,
                   delayVars, queryVars>>

\* the sleep of the catch block ends: attempt++ and the loop condition
ApiSleepDone ==
    /\ apiPc = "sleeping"
    /\ ApiStartAttempt(apiAttempt + 1)
    /\ UNCHANGED <<apiOptions, travVars, pairVars, drainVars, normVars, delayVars, queryVars>>

NextApi ==
    \/ ApiFetchPage
    \/ ApiTimerFires
    \/ ApiFetchResponds
    \/ ApiFetchRejects
    \/ ApiParseOk
    \/ ApiParseFail
    \/ ApiSleepDone

SpecApi == InitApi /\ [][NextApi]_vars

----------------------------------------------------------------------------
(* The query builder q(): its methods called one after another, and toString().      *)

\* the arguments the methods are called with
StatusArgs == {<<"widely">>, <<"newly">>}
DateArgs   == {<<(<<"2023-01-01">>), (<<"2024-12-31">>)>>, <<(<<"2024-01-01">>), (<<>>)>>,
               <<(<<DQ, "2023">>), (<<"2024">>)>>}
IdArgs     == {<<>>, <<"css">>, <<"a", "U+00A0", "b">>, <<"a", ":", "b">>, <<DQ, "a", DQ>>,
               <<"(", "a", ")">>, <<"a", "U+2028", "b">>, <<BS, DQ>>, <<"a", "U+200B", "b">>,
               <<"U+3000", "a">>, <<"a", "U+2003">>}
GroupArgs  == {<<"css">>, <<"a", " ", "b">>, <<"a", DQ, "b", DQ>>}
RawArgs    == {<<>>, <<"U+1680", "\n", "U+3000">>, <<" ", "-", "id", ":", "x", " ">>,
               <<"U+0085", "x", DQ, "y", "U+2003">>}

InitQuery ==
    /\ TraversalIdle
    /\ DelayIdle
    /\ ApiIdle
    /\ QueryIdle
    /\ NormIdle
    /\ PairIdle
    /\ DrainIdle

\* a method that appends: the builder is changed, a string rendered before is stale
Called(m, a, b, ts) ==
    /\ Len(calls) + Len(copyCalls) < MaxCalls
    /\ calls' = Append(calls, [m |-> m, a |-> a, b |-> b])
    /\ terms' = ts
    /\ rendered' = [called |-> FALSE, str |-> <<>>]
    /\ UNCHANGED <<cloneVars, travVars, pairVars, drainVars, normVars, delayVars, apiVars>>

CallBaseline == \E st \in StatusArgs : Called("baseline", st, <<>>, baseline(terms, st))
CallRange    == \E d \in DateArgs : Called("range", d[1], d[2], range(terms, d[1], d[2]))
CallId       == \E v \in IdArgs : Called("id", v, <<>>, id(terms, v))
CallGroup    == \E v \in GroupArgs : Called("group", v, <<>>, group(terms, v))
CallSnapshot == \E v \in GroupArgs : Called("snapshot", v, <<>>, snapshot(terms, v))
CallCustom   == \E t \in RawArgs : Called("custom", t, <<>>, custom(terms, t))
CallAndRaw   == \E t \in RawArgs : Called("andRaw", t, <<>>, andRaw(terms, t))

\* toString(): terms.join reads the array and writes nothing
CallToString ==
    /\ rendered' = [called |-> TRUE, str |-> toString(terms)]
    /\ terms' = terms
    /\ UNCHANGED <<calls, cloneVars, travVars, pairVars, drainVars, normVars, delayVars, apiVars>>

NextQuery ==
    \/ CallBaseline
    \/ CallRange
    \/ CallId
    \/ CallGroup
    \/ CallSnapshot
    \/ CallCustom
    \/ CallAndRaw
    \/ CallToString

SpecQuery == InitQuery /\ [][NextQuery]_vars

----------------------------------------------------------------------------
(* normalizeQuery on its own: one call on each shape of QueryInput.                   *)

\* the characters the strings given to normalizeQuery begin and end with: white space
\* of every kind, and characters that look like it
EdgeChars ==
    {" ", "\t", "\n", "\r", "\f", "", "U+000B", "U+0085", "U+00A0", "U+00E9", "U+1680",
     "U+180E", "U+2000", "U+2001", "U+2002", "U+2003", "U+2004", "U+2005", "U+2006",
     "U+2007", "U+2008", "U+2009", "U+200A", "U+200B", "U+2028", "U+2029", "U+202F",
     "U+205F", "U+3000", "U+FEFF"}

\* the arguments normalizeQuery is called with
StringArgs == {<<>>, <<" ">>, <<"a">>, <<" ", "a", " ">>, <<"a", " ", "b">>, <<"\n", "", "a">>,
               <<"id", ":", "x">>, <<"a", "\r", "U+FEFF">>, <<"U+200B", "a", "U+180E">>}
                 \cup {<<c, "a", " ", "b", c>> : c \in EdgeChars}
ObjectArgs ==
    [baselineStatus    : {Undefined, Some(<<"widely">>)},
     baselineDateRange : {Undefined, Some([start |-> <<"2023-01-01">>, end |-> <<"2024-12-31">>])},
     featureId         : {Undefined, Some(<<>>), Some(<<"css">>), Some(<<"a", " ", "b">>)},
     group             : {Undefined, Some(<<"css">>)},
     snapshot          : {Undefined, Some(<<"s1">>)},
     customQuery       : {Undefined, Some(<<>>), Some(<<" ">>), Some(<<" ", "x", " ">>)}]
BuilderArgs == {<<>>, id(<<>>, <<"css">>), baseline(id(<<>>, <<"a", " ", "b">>), <<"widely">>),
                andRaw(<<>>, <<" ", "-", "id", ":", "x", " ">>)}

QueryInputs ==
    {InUndefined} \cup {InString(s) : s \in StringArgs}
                  \cup {InObject(o) : o \in ObjectArgs}
                  \cup {InBuilder(ts) : ts \in BuilderArgs}

InitNorm ==
    /\ TraversalIdle
    /\ DelayIdle
    /\ ApiIdle
    /\ QueryIdle
    /\ PairIdle
    /\ DrainIdle
    /\ input \in QueryInputs
    /\ normalized = [called |-> FALSE, str |-> <<>>]

CallNormalizeQuery ==
    /\ ~normalized.called
    /\ normalized' = [called |-> TRUE, str |-> normalizeQuery(input)]
    /\ UNCHANGED <<input, travVars, pairVars, drainVars, delayVars, apiVars, queryVars>>

NextNorm == CallNormalizeQuery

SpecNorm == InitNorm /\ [][NextNorm]_vars

----------------------------------------------------------------------------
(* clone(): the original builder and the builder clone() returns, each appended to.   *)
(* A builder pushes to the terms array of its own closure; copyRef tells which array  *)
(* that is for the clone: 1 the original's terms, 2 the array copyTerms.              *)

\* terms.forEach((t) => copy.andRaw(t)), on the terms acc of the copy
RECURSIVE forEachAndRaw(_, _)
forEachAndRaw(ts, acc) ==
    IF ts = <<>> THEN acc ELSE forEachAndRaw(Tail(ts), andRaw(acc, Head(ts)))

\* variant of clone: the builder returns itself ("return api")
clone_self(ts) == [ref |-> 1, terms |-> <<>>]

\* api.clone: a builder made by q(), with an array of its own
clone(ts) == [ref |-> 2, terms |-> forEachAndRaw(ts, <<>>)]

\* the terms the clone holds
CopyArray == IF copyRef = 1 THEN terms ELSE copyTerms

CallClone ==
    /\ copyRef = 0
    /\ copyRef' = clone(terms).ref
    /\ copyTerms' = clone(terms).terms
    /\ clonedAt' = Len(calls)
    /\ UNCHANGED <<terms, rendered, calls, copyCalls, travVars, pairVars, drainVars, normVars, delayVars, apiVars>>

\* a method called on the clone
CalledOnCopy(m, a, ts) ==
    /\ copyRef # 0
    /\ Len(calls) + Len(copyCalls) < MaxCalls
    /\ copyCalls' = Append(copyCalls, [m |-> m, a |-> a, b |-> <<>>])
    /\ IF copyRef = 1
         THEN terms' = ts /\ UNCHANGED copyTerms
         ELSE copyTerms' = ts /\ UNCHANGED terms
    /\ UNCHANGED <<rendered, calls, copyRef, clonedAt, travVars, pairVars, drainVars, normVars, delayVars, apiVars>>

CopyCallId     == \E v \in GroupArgs : CalledOnCopy("id", v, id(CopyArray, v))
CopyCallAndRaw == \E t \in RawArgs : CalledOnCopy("andRaw", t, andRaw(CopyArray, t))

NextClone ==
    \/ CallBaseline
    \/ CallRange
    \/ CallId
    \/ CallGroup
    \/ CallSnapshot
    \/ CallCustom
    \/ CallAndRaw
    \/ CallClone
    \/ CopyCallId
    \/ CopyCallAndRaw

SpecClone == InitQuery /\ [][NextClone]_vars

----------------------------------------------------------------------------
(* Two pages() traversals on one client, neither given a signal, their suspension     *)
(* points interleaved.  The attempt counter, the timer, the controller and the        *)
(* continuation token are variables of the activation of requestPage and pages that   *)
(* a traversal runs in; FrameOf tells which activation that is.  As in the single     *)
(* traversal every action is one run of code between two suspension points or one     *)
(* event of the environment; a clock measures the timers in ticks.                    *)

\* variant of FrameOf: the variables are kept once in the client's closure
FrameOf_client(t) == 1

\* every call of requestPage and pages has variables of its own
FrameOf(t) == t

\* the per-call retry of the two traversals
PairRetryOpts == {Some(0), Some(1)}

\* the token of the k-th page of the listing that traversal t walks
PageTokens == << <<"a1", "a2", "a3">>, <<"b1", "b2", "b3">> >>

\* requestPage of traversal t: const retry
RetryOf(t) == Coalesce(trav[t].opts.retry, defaultRetry)

InitPair ==
    /\ TraversalIdle
    /\ DelayIdle
    /\ ApiIdle
    /\ QueryIdle
    /\ NormIdle
    /\ DrainIdle
    /\ frame = [t \in T |-> FrameStart]
    /\ trav \in {[t \in T |-> TravStart(r[t])] : r \in [T -> PairRetryOpts]}

PairFrame == UNCHANGED <<travVars, delayVars, apiVars, queryVars, normVars, drainVars>>

\* variant of armTimer: the timer runs on what the timers before it left of the timeout
armTimer_remaining(left) == left

\* setTimeout(..., timeout): the time in ticks until the new timer fires, the timeout
\* being TimeoutTicks ticks; left is what the timer before it had left
armTimer(left) == TimeoutTicks

\* the body of the for loop up to "await $fetch" of a call for the page behind tok: the
\* timer is set, the request issued
PairStartAttempt(t, att, tok) ==
    /\ frame' = [frame EXCEPT ![FrameOf(t)] =
                    [@ EXCEPT !.attempt = att, !.timedOut = FALSE, !.timeoutId = TRUE,
                              !.aborted = FALSE, !.left = armTimer(@), !.token = tok,
                              !.resStatus = 0]]
    /\ trav' = [trav EXCEPT ![t] =
                    [@ EXCEPT !.pc = "inflight", !.sleepMs = Q(0), !.since = 0,
                              !.log = Append(@, [page    |-> Len(trav[t].got),
                                                 token   |-> tok,
                                                 attempt |-> att])]]

\* "attempt < retry": the backoff sleep; otherwise err is thrown
PairRetryOrThrow(t, err, fr) ==
    IF CanRetry(fr[FrameOf(t)].attempt, RetryOf(t))
      THEN \E rnd \in 0..(RandDen - 1) :
              /\ frame' = fr
              /\ trav' = [trav EXCEPT ![t] =
                     [@ EXCEPT !.pc = "sleeping",
                               !.sleepMs = computeDelay(fr[FrameOf(t)].attempt, backoff.base,
                                               backoff.factor, backoff.max, backoff.jitter, rnd)]]
      ELSE /\ frame' = fr
           /\ trav' = [trav EXCEPT ![t] = [@ EXCEPT !.pc = "failed", !.error = err]]

\* variant of firstAttempt: the loop goes on from the index the call before stopped at
firstAttempt_carried(prev) == prev

\* "let attempt = 0" of the for loop of a new call; prev is where the call before stopped
firstAttempt(prev) == 0

\* the consumer pulls a page: the first pull starts pages, which calls
\* requestPage(qstr, token, opts); a later pull resumes pages after its yield, which
\* sets token and leaves the loop or calls requestPage for the next page
PairPull(t) ==
    /\ trav[t].pc = "ready"
    /\ IF trav[t].got = <<>>
         THEN PairStartAttempt(t, firstAttempt(frame[FrameOf(t)].attempt), NoToken)
         ELSE LET next == trav[t].got[Len(trav[t].got)]
              IN  IF PagesBreak(next, PageData(Len(trav[t].got), 1))
                    THEN /\ frame' = [frame EXCEPT ![FrameOf(t)] = [@ EXCEPT !.token = next]]
                         /\ trav' = [trav EXCEPT ![t] = [@ EXCEPT !.pc = "done"]]
                    ELSE PairStartAttempt(t, firstAttempt(frame[FrameOf(t)].attempt), next)
    /\ PairFrame

\* the timer of the attempt fires: timedOut = true; controller.abort()
PairTimerFires(t) ==
    /\ trav[t].pc = "inflight"
    /\ frame[FrameOf(t)].timeoutId
    /\ frame[FrameOf(t)].left = 0
    /\ frame' = [frame EXCEPT ![FrameOf(t)] =
                    [@ EXCEPT !.timedOut = TRUE, !.aborted = TRUE, !.timeoutId = FALSE]]
    /\ UNCHANGED trav
    /\ PairFrame

\* $fetch rejects as its signal is aborted: the catch block
PairFetchAborted(t) ==
    /\ trav[t].pc = "inflight"
    /\ frame[FrameOf(t)].aborted
    /\ LET fr == [frame EXCEPT ![FrameOf(t)] = [@ EXCEPT !.timeoutId = FALSE]]
       IN  IF fr[FrameOf(t)].timedOut
             THEN PairRetryOrThrow(t, TimeoutError(defaultTimeout), fr)
             ELSE /\ frame' = fr
                  /\ trav' = [trav EXCEPT ![t] = [@ EXCEPT !.pc = "failed", !.error = AbortError]]
    /\ PairFrame

\* $fetch resolves with a response that is not ok: the timer is cleared, the body is
\* read next
PairRespondsError(t) ==
    /\ trav[t].pc = "inflight"
    /\ ~frame[FrameOf(t)].aborted
    /\ \E status \in {404, 503} :
          frame' = [frame EXCEPT ![FrameOf(t)] =
                       [@ EXCEPT !.timeoutId = FALSE, !.resStatus = status]]
    /\ trav' = [trav EXCEPT ![t] = [@ EXCEPT !.pc = "readingBody"]]
    /\ PairFrame

\* the body of the response that is not ok has been read: the sleep of a retryable
\* status below retry, or "throw err", which the catch block of the same attempt
\* receives and retries below retry whatever the status
PairBodyRead(t) ==
    /\ trav[t].pc = "readingBody"
    /\ LET status == frame[FrameOf(t)].resStatus
       IN  IF CanRetry(frame[FrameOf(t)].attempt, RetryOf(t)) /\ isRetryableStatus(status)
             THEN PairRetryOrThrow(t, HTTPError(status), frame)
             ELSE PairRetryOrThrow(t, HTTPError(status),
                                   [frame EXCEPT ![FrameOf(t)] = [@ EXCEPT !.timeoutId = FALSE]])
    /\ PairFrame

\* $fetch resolves with a 2xx response: the timer is cleared, res.json() is awaited
PairRespondsOk(t) ==
    /\ trav[t].pc = "inflight"
    /\ ~frame[FrameOf(t)].aborted
    /\ frame' = [frame EXCEPT ![FrameOf(t)] = [@ EXCEPT !.timeoutId = FALSE, !.resStatus = 200]]
    /\ trav' = [trav EXCEPT ![t] = [@ EXCEPT !.pc = "parsing"]]
    /\ PairFrame

\* res.json() resolves with the next page of the traversal's listing: requestPage
\* returns it and pages yields it
PairParseOk(t) ==
    /\ trav[t].pc = "parsing"
    /\ Len(trav[t].got) < MaxPages
    /\ \E more \in BOOLEAN :
          LET k    == Len(trav[t].got) + 1
              next == IF more /\ k < MaxPages THEN PageTokens[t][k] ELSE NoToken
          IN  trav' = [trav EXCEPT ![t] = [@ EXCEPT !.pc = "ready", !.got = Append(@, next)]]
    /\ UNCHANGED frame
    /\ PairFrame

\* res.json() rejects: the catch block
PairParseFail(t) ==
    /\ trav[t].pc = "parsing"
    /\ PairRetryOrThrow(t, SyntaxError,
                        [frame EXCEPT ![FrameOf(t)] = [@ EXCEPT !.timeoutId = FALSE]])
    /\ PairFrame

\* the backoff sleep is over: attempt++ and the loop's condition
PairSleepDone(t) ==
    /\ trav[t].pc = "sleeping"
    /\ IF LoopCond(frame[FrameOf(t)].attempt + 1, RetryOf(t))
         THEN PairStartAttempt(t, frame[FrameOf(t)].attempt + 1, frame[FrameOf(t)].token)
         ELSE /\ trav' = [trav EXCEPT ![t] = [@ EXCEPT !.pc = "failed", !.error = UnknownFailure]]
              /\ UNCHANGED frame
    /\ PairFrame

\* one tick of time passes: every pending timer comes one tick nearer to firing, none
\* being due; an attempt whose timer is pending has waited one tick more
PairTick ==
    /\ \E t \in T : frame[t].timeoutId
    /\ \A t \in T : frame[t].timeoutId => frame[t].left > 0
    /\ frame' = [t \in T |-> IF frame[t].timeoutId
                               THEN [frame[t] EXCEPT !.left = @ - 1] ELSE frame[t]]
    /\ trav' = [t \in T |-> IF trav[t].pc = "inflight" /\ frame[FrameOf(t)].timeoutId
                              THEN [trav[t] EXCEPT !.since = @ + 1] ELSE trav[t]]
    /\ PairFrame

NextPair ==
    \/ PairTick
    \/ \E t \in T :
            \/ PairPull(t)
            \/ PairTimerFires(t)
            \/ PairFetchAborted(t)
            \/ PairRespondsError(t)
            \/ PairRespondsOk(t)
            \/ PairBodyRead(t)
            \/ PairParseOk(t)
            \/ PairParseFail(t)
            \/ PairSleepDone(t)

SpecPair == InitPair /\ [][NextPair]_vars

----------------------------------------------------------------------------
(* The four drains and the lookups by id over them, called in any order and at any   *)
(* time, also while others wait, for the same filter against a server that holds one *)
(* listing.  A page of the listing is [fails, n, more, meta, ids]: every request for *)
(* it is answered 500, or it returns n records and, if more, the token of the page   *)
(* after it; meta tells whether the response has a metadata object, ids whether its  *)
(* records have the strings id and name (or feature_id and name only).  A drain that *)
(* has sent a request waits for the answer; log holds the page token of every pass   *)
(* of its loop, written when the pass sends its first request.                       *)

\* the pages of the listing
NPages == MaxPages + 1

\* the token that leads from page k to page k + 1
ListingTokens == <<"t1", "t2", "t3", "t4">>

PageKinds ==
    {[fails |-> TRUE, n |-> 0, more |-> FALSE, meta |-> TRUE, ids |-> TRUE]}
        \cup {p \in [fails : {FALSE}, n : 0..MaxRecs, more : BOOLEAN, meta : BOOLEAN,
                      ids : BOOLEAN] :
                 /\ p.more => p.meta
                 /\ p.n = 0 => p.ids}

Listings == {l \in [1..NPages -> PageKinds] : ~l[NPages].more}

\* the page a request with page_token = tok asks for
PageOf(tok) ==
    IF tok = NoToken THEN 1
    ELSE 1 + CHOOSE k \in 1..Len(ListingTokens) : ListingTokens[k] = tok

\* the body of the server's 2xx response to a request with page_token = tok
ServerPage(tok) ==
    LET k == PageOf(tok)
    IN  [data |-> PageData(k, srv[k].n),
         next |-> IF srv[k].more THEN ListingTokens[k] ELSE NoToken,
         meta |-> srv[k].meta,
         ids  |-> srv[k].ids]

InitDrain ==
    /\ TraversalIdle
    /\ DelayIdle
    /\ ApiIdle
    /\ QueryIdle
    /\ NormIdle
    /\ PairIdle
    /\ srv \in Listings
    /\ drain = [d \in DrainSet |-> DrainStart]
    /\ lookupOut = [w \in Lookups |-> Pending]

DrainFrame == UNCHANGED <<srv, travVars, delayVars, apiVars, queryVars, normVars, pairVars>>

Completed(d) == drain[d].pc \in {"returned", "threw"}

\* the page drain d waits for, and the list it holds
NextPage(d) == ServerPage(drain[d].token)
Out(d) == drain[d].out

\* drain d is called: it runs up to its first await, the request for the first page
\* sent
DrainCall(d) ==
    /\ drain[d].pc = "idle"
    /\ drain' = [drain EXCEPT ![d] = [@ EXCEPT !.pc = "waiting", !.log = <<NoToken>>]]
    /\ UNCHANGED lookupOut
    /\ DrainFrame

\* the answer to the request of drain d has come, one pass of its loop goes on from
\* its await.  An answer 500 is retried after a sleep while retries are left, and
\* makes the drain reject when none is; so does a page that is not accepted.  Else the
\* list becomes out and the token that of the page, and if goes the next pass sends
\* its request before the drain waits again.
DrainPass(d, retries, accepted, out, goes) ==
    /\ drain[d].pc = "waiting"
    /\ drain' = [drain EXCEPT ![d] =
          IF srv[PageOf(drain[d].token)].fails
            THEN [@ EXCEPT !.pc = IF drain[d].attempt < retries THEN "sleeping"
                                                                ELSE "threw"]
          ELSE IF ~accepted THEN [@ EXCEPT !.pc = "threw"]
          ELSE [pc      |-> IF goes THEN "waiting" ELSE "returned",
                token   |-> NextPage(d).next,
                out     |-> out,
                log     |-> IF goes THEN Append(drain[d].log, NextPage(d).next)
                                    ELSE drain[d].log,
                attempt |-> 0]]
    /\ UNCHANGED lookupOut
    /\ DrainFrame

\* the sleep before the next attempt at the page ends: the request is sent again
DrainSleepDone(d) ==
    /\ drain[d].pc = "sleeping"
    /\ drain' = [drain EXCEPT ![d] = [@ EXCEPT !.pc = "waiting", !.attempt = @ + 1]]
    /\ UNCHANGED lookupOut
    /\ DrainFrame

\* features over stream over pages: every record is pushed; pages breaks on no token
\* or an empty page; requestPage tries a page answered 500 again, retry times
FeaturesGoes(next, data) == ~PagesBreak(next, data)
FeaturesPass ==
    DrainPass("features", defaultRetry, TRUE,
              Drain(Out("features"), NextPage("features").data),
              FeaturesGoes(NextPage("features").next, NextPage("features").data))

\* queryFeatures: webStatusAPIResponseSchema.parse(response) passes a page that has a
\* metadata object and whose records each have the strings id and name, and throws
\* on any other
SchemaAccepts(page) == page.meta /\ (Len(page.data) = 0 \/ page.ids)

\* WebStatusClient.fetchAllFeatures: every page comes through queryFeatures, one await
\* of ofetch; "if (response.data?.length) allFeatures.push(...)" and
\* "while (pageToken)"
PushIfAny(out, data) == IF Len(data) > 0 THEN out \o data ELSE out
FetchAllFeaturesGoes(next, data) == Truthy(next)
FetchAllFeaturesPass ==
    DrainPass("fetchAllFeatures", 0, SchemaAccepts(NextPage("fetchAllFeatures")),
              PushIfAny(Out("fetchAllFeatures"), NextPage("fetchAllFeatures").data),
              FetchAllFeaturesGoes(NextPage("fetchAllFeatures").next,
                                   NextPage("fetchAllFeatures").data))

\* fetchFeatures: "results = [...results, ...response.data]", the break on
\* "!token || response.data.length === 0", "while (token)".  Its fetchPage is one await
\* of ofetch and passes the response through isApiResponse, whose module is not among
\* the sources; the pages served are taken to pass it.
Spread(out, data) == out \o data
FetchFeaturesGoes(next, data) == ~(~Truthy(next) \/ Len(data) = 0) /\ Truthy(next)
FetchFeaturesPass ==
    DrainPass("fetchFeatures", 0, TRUE,
              Spread(Out("fetchFeatures"), NextPage("fetchFeatures").data),
              FetchFeaturesGoes(NextPage("fetchFeatures").next,
                                NextPage("fetchFeatures").data))

\* BaselineAPI.fetchAllPages: "results.push(...apiResponse.data)" and
\* "while (token && apiResponse.data.length > 0)"; its fetchPage tries a page answered
\* 500 again, this.retry times, the class made with no options
FetchAllPagesGoes(next, data) == Truthy(next) /\ Len(data) > 0
FetchAllPagesPass ==
    DrainPass("fetchAllPages", this_retry, TRUE,
              Spread(Out("fetchAllPages"), NextPage("fetchAllPages").data),
              FetchAllPagesGoes(NextPage("fetchAllPages").next,
                                NextPage("fetchAllPages").data))

Threw == [kind |-> "threw", v |-> <<>>]
NullOut == [kind |-> "null", v |-> <<>>]

\* "list[0] || null" and "features.length > 0 ? features[0] : null"
FirstOrNull(list) == IF Len(list) > 0 THEN [kind |-> "record", v |-> list[1]] ELSE NullOut

\* the lookup w returns once the drain it awaits has completed: rejected is what it
\* does with the drain's rejection
LookupReturns(w, rejected) ==
    /\ Completed(LookupOver[w])
    /\ lookupOut[w] = Pending
    /\ lookupOut' = [lookupOut EXCEPT ![w] =
                        IF drain[LookupOver[w]].pc = "threw" THEN rejected
                        ELSE FirstOrNull(drain[LookupOver[w]].out)]
    /\ UNCHANGED drain
    /\ DrainFrame

\* feature of createWebStatusClient: the rejection of features is its own
FeatureReturns == LookupReturns("feature", Threw)

\* BaselineAPI.byId: the catch block logs the error and returns null
ByIdReturns == LookupReturns("byId", NullOut)

\* byId of the standalone BaselineAPI: no try, the rejection of features is its own
ByIdStandaloneReturns == LookupReturns("byIdStandalone", Threw)

NextDrain ==
    \/ \E d \in DrainSet : DrainCall(d) \/ DrainSleepDone(d)
    \/ FeaturesPass
    \/ FetchAllFeaturesPass
    \/ FetchFeaturesPass
    \/ FetchAllPagesPass
    \/ FeatureReturns
    \/ ByIdReturns
    \/ ByIdStandaloneReturns

SpecDrain == InitDrain /\ [][NextDrain]_vars

TypeOK ==
    /\ pc \in {"start", "ready", "inflight", "readingBody", "parsing", "sleeping",
               "done", "failed"}
    /\ attempt \in 0..(DEFAULTS_retry + 1)
    /\ timeoutId => pc = "inflight"
    /\ onAbort => pc = "inflight"

----------------------------------------------------------------------------
(* Properties *)

Last(sq) == sq[Len(sq)]

\* the statuses the retry policy names as retryable
RetryableSet == {429} \cup (500..599)

\* the timeout in force for the call: the per-call value if given, else the client's
EffectiveTimeout ==
    IF opts.timeout # Undefined THEN opts.timeout[1]
    ELSE IF options.timeout # Undefined THEN options.timeout[1]
    ELSE DEFAULTS_timeout

\* C1: with retry = N >= 0 and a server answering every request of the call with 503
\* (no timeout, no cancellation), at most N+1 requests are issued, and the call fails
\* only after exactly N+1 of them, with the HTTPError of status 503.
C1_RetryBound ==
    (callOnly503 /\ ~userAborted /\ callRequests > 0 /\ retry >= 0) =>
        /\ callRequests <= retry + 1
        /\ pc = "failed" => (callRequests = retry + 1 /\ error = HTTPError(503))
        /\ pc = "sleeping" => callRequests <= retry

C1_Witness ==
    /\ pc = "failed"
    /\ callOnly503
    /\ ~userAborted
    /\ retry = 3
    /\ callRequests = 4

\* C2: when the first response of a call has a non-2xx status outside {429, 500..599},
\* the call fails with the HTTPError of that status after exactly one request and with
\* no backoff sleep, whatever the retry setting.
C2_NonRetryableFailsAtOnce ==
    (callRequests = 1 /\ resStatus # 0 /\ ~ResOk(resStatus)
       /\ resStatus \notin RetryableSet /\ pc # "readingBody") =>
        /\ pc = "failed"
        /\ error = HTTPError(resStatus)
        /\ callSleeps = 0

\* C3: an attempt during which the caller aborted while the request was in flight and
\* its timer had not fired is never treated as a timeout: no backoff sleep follows it
\* and the call fails with AbortError, never with TimeoutError.
C3_CancelNeverTimeout ==
    cancelledFirst =>
        /\ pc \in {"inflight", "failed"}
        /\ pc = "failed" => error = AbortError

\* C4: in a stream() traversal whose first page has records and a continuation token,
\* once the caller aborts after that page was delivered, the consumer receives exactly
\* the first page's records in server order, the pull after them fails with AbortError,
\* and no request carrying a page token is ever issued.
C4_CancelAfterFirstPage ==
    (mode = "stream" /\ abortAfterFirst) =>
        /\ Len(served) = 1
        /\ \A i \in 1..Len(requestLog) : requestLog[i] = NoToken
        /\ IsPrefix(received, served[1].data)
        /\ pc \in {"ready", "failed"}
        /\ pc = "failed" => (received = served[1].data /\ error = AbortError)

C4_Witness ==
    /\ mode = "stream"
    /\ abortAfterFirst
    /\ pc = "failed"
    /\ error = AbortError
    /\ received = <<(<<1, 1>>), (<<1, 2>>)>>

\* C5: once the caller's signal is aborted, no step of the traversal issues another
\* network request or starts another backoff sleep.  Stated for the steps that C2, C3
\* and C9 do not already decide: the attempt's timer has not fired, no 2xx body is
\* being parsed, and a response whose body is being read has a retryable status.
C5_NothingStartsAfterAbort ==
    [][(/\ userAborted
        /\ ~timedOut
        /\ pc # "parsing"
        /\ pc = "readingBody" => resStatus \in RetryableSet) =>
          /\ Len(requestLog') = Len(requestLog)
          /\ ~(pc # "sleeping" /\ pc' = "sleeping")]_vars

\* C6: in a stream() traversal with no failed attempt, in which every page before the
\* last has records and a continuation token, the consumer receives the pages' records
\* concatenated in server order, one request is issued per page (the first without a
\* token, each later one with the token of the page before), and the traversal ends at
\* the first page without a token, with no further request.
C6_StreamConcatenation ==
    (mode = "stream" /\ ~anyFailure
       /\ \A i \in 1..(Len(served) - 1) :
             Len(served[i].data) > 0 /\ Truthy(served[i].next)) =>
        /\ IsPrefix(received, Concat(served))
        /\ Len(requestLog) = Len(served) + (IF pc \in {"inflight", "parsing"} THEN 1 ELSE 0)
        /\ \A i \in 1..Len(requestLog) :
              requestLog[i] = (IF i = 1 THEN NoToken ELSE served[i - 1].next)
        /\ pc = "done" =>
              /\ received = Concat(served)
              /\ ~Truthy(Last(served).next) \/ Len(Last(served).data) = 0
        /\ (Len(served) > 0 /\ ~Truthy(Last(served).next)) =>
              pc \in {"ready", "done"}

C6_Witness ==
    /\ mode = "stream"
    /\ ~anyFailure
    /\ pc = "done"
    /\ Len(served) = 2
    /\ Len(served[1].data) = 2
    /\ Len(served[2].data) = 1
    /\ Len(requestLog) = 2
    /\ received = <<(<<1, 1>>), (<<1, 2>>), (<<2, 1>>)>>

\* C7: a fetched page with zero records and a non-null next_page_token is the last
\* element pages() produces: no request is issued after it, with that token or any.
C7_EmptyPageTerminates ==
    \A i \in 1..Len(served) :
        (Len(served[i].data) = 0 /\ served[i].next # NoToken) =>
            /\ i = Len(served)
            /\ pc \in {"ready", "done"}
            /\ mode = "stream" => pc = "done"

C7_Witness ==
    /\ mode = "pages"
    /\ pc = "done"
    /\ Len(served) = 2
    /\ Len(served[2].data) = 0
    /\ served[2].next = "t2"
    /\ token = "t2"
    /\ Last(requestLog) = "t1"

\* C8: when a page's next_page_token equals a token already consumed earlier in the
\* traversal, no request is issued with it: the traversal ends there, and if it ends
\* in failure the error is PaginationError.
C8_RepeatedTokenStops ==
    \A j \in 1..Len(served) :
        (Truthy(served[j].next) /\ \E i \in 1..(j - 1) : served[i].next = served[j].next) =>
            /\ j = Len(served)
            /\ pc \in {"ready", "done", "failed"}
            /\ pc = "failed" => error.name = "PaginationError"

\* C9: when the body of a 2xx response fails to parse, the call fails at once with the
\* parse error: no backoff sleep follows that attempt.
C9_MalformedNotRetried ==
    (ResOk(resStatus) /\ pc \in {"sleeping", "failed"}) =>
        /\ pc = "failed"
        /\ error = SyntaxError

\* C10: after an attempt whose timer fired before the response, the call sleeps when
\* attempt < retry and the next attempt then follows; on the last allowed attempt it
\* fails with TimeoutError carrying the per-call timeout if given, else the client's.
C10_TimeoutRetriedOrSurfaced ==
    (timedOut /\ pc # "inflight") =>
        /\ attempt < retry => (pc = "sleeping" /\ callRequests = attempt + 1)
        /\ attempt >= retry => (pc = "failed" /\ error = TimeoutError(EffectiveTimeout))

C10_Witness ==
    /\ timedOut
    /\ pc = "failed"
    /\ attempt = 2
    /\ callRequests = 3
    /\ opts.timeout = Some(0)
    /\ error = TimeoutError(0)

\* the step ends an attempt with a retryable status (its body has been read) or with a
\* transport-level failure before any status was known
EndsRetryable ==
    \/ pc = "readingBody" /\ resStatus \in RetryableSet /\ pc' # "readingBody"
    \/ pc = "inflight" /\ ~controllerAborted /\ pc' \in {"sleeping", "failed"}

\* C11: a step that ends attempt k < retry with status 429 or 500..599, or with a
\* transport failure, surfaces no error and starts exactly one backoff sleep; the step
\* that ends a backoff sleep issues attempt k+1 for the same page, unless the caller's
\* signal was aborted in the meantime.
C11_RetryableOutcomeRetried ==
    [][/\ (EndsRetryable /\ attempt < retry) =>
              /\ pc' = "sleeping"
              /\ error' = error
              /\ callSleeps' = callSleeps + 1
              /\ callRequests' = callRequests
       /\ (pc = "sleeping" /\ pc' # "sleeping" /\ ~(opts.signal /\ userAborted)) =>
              /\ pc' = "inflight"
              /\ attempt' = attempt + 1
              /\ requestLog' = Append(requestLog, token)
              /\ callRequests' = callRequests + 1
              /\ callSleeps' = callSleeps
              /\ error' = error]_vars

C11_Witness ==
    /\ pc = "inflight"
    /\ attempt = 2
    /\ callRequests = 3
    /\ callSleeps = 2
    /\ callOnly503
    /\ error = NoError

\* C12: when a call fails on an attempt that ended in a retryable outcome (every
\* earlier attempt having been retried), the error surfaced is the one of that last
\* attempt: the HTTPError with the last response's status, or the transport error of
\* the last rejection, never an error kept from an earlier attempt.
C12_LastErrorSurfaced ==
    (pc = "failed" /\ callRequests = attempt + 1 /\ ~timedOut /\ ~controllerAborted) =>
        /\ resStatus \in RetryableSet =>
              (error = HTTPError(resStatus) /\ callRequests = retry + 1)
        /\ resStatus = 0 =>
              (error = TransportError /\ callRequests = retry + 1)

C12_Witness ==
    /\ pc = "failed"
    /\ retry = 2
    /\ callRequests = 3
    /\ lastError = HTTPError(429)
    /\ resStatus = 429
    /\ error = HTTPError(429)
    /\ ~callOnly503
    /\ ~timedOut

\* base * factor^attempt for the arguments of the call
DelayProduct == QMul(dArgs.base, QPow(dArgs.factor, dArgs.attempt))

\* C13 as stated: the delay is never more than max, and with jitter disabled it is
\* exactly min(max, base * factor^attempt).
C13_DelayExact ==
    dOut # <<>> =>
        /\ QLe(dOut, dArgs.max)
        /\ ~dArgs.jitter => QEq(dOut, QMin(dArgs.max, DelayProduct))

\* the integer r is x rounded to the nearest integer, halves up: r <= x + 1/2 < r + 1
RoundsTo(x, r) ==
    /\ 2 * r * x[2] <= 2 * x[1] + x[2]
    /\ 2 * x[1] + x[2] < 2 * (r + 1) * x[2]

\* C13, amended: the delay is never more than max, and with jitter disabled it is
\* exactly min(max, r), r being base * factor^attempt rounded to the nearest integer:
\* either the delay is that integer and is at most max, or it is max and the rounded
\* product is larger than max.
C13_DelayRounded ==
    dOut # <<>> =>
        /\ QLe(dOut, dArgs.max)
        /\ ~dArgs.jitter =>
              \/ /\ dOut[1] % dOut[2] = 0
                 /\ RoundsTo(DelayProduct, dOut[1] \div dOut[2])
              \/ /\ QEq(dOut, dArgs.max)
                 /\ 2 * ((dArgs.max[1] \div dArgs.max[2]) + 1) * DelayProduct[2]
                       <= 2 * DelayProduct[1] + DelayProduct[2]

C13_Witness ==
    /\ dArgs = [attempt |-> 1, base |-> Q(1), factor |-> <<3, 2>>, max |-> Q(5),
                jitter |-> FALSE]
    /\ dOut # <<>>
    /\ QEq(dOut, Q(2))

\* the retry option as given by the caller: the per-call value if given, else the
\* client's, else the default
GivenRetry ==
    IF opts.retry # Undefined THEN opts.retry[1]
    ELSE IF options.retry # Undefined THEN options.retry[1]
    ELSE DEFAULTS_retry

\* C14: with retry = 0, given per call or (no per-call value) to the client, a call
\* issues at most one request and starts no backoff sleep, and it has failed whenever
\* its one attempt has ended without a page.
C14_RetryZeroSingleAttempt ==
    GivenRetry = 0 =>
        /\ callRequests <= 1
        /\ callSleeps = 0
        /\ pc # "sleeping"
        /\ attempt = 0
        /\ pc = "failed" => (callRequests = 1 \/ error = AbortError)

C14_Witness ==
    /\ opts.retry = Some(0)
    /\ options.retry = Undefined
    /\ pc = "failed"
    /\ callRequests = 1
    /\ callSleeps = 0
    /\ error = HTTPError(503)

\* C15: a BaselineAPI constructed with retry = n issues at most n + 1 requests for one
\* page, for every n >= 0.
C15_ApiRetryBound ==
    apiOptions.retry # Undefined => apiRequests <= apiOptions.retry[1] + 1

\* C16: at most one request of the traversal is in flight; and while a request is
\* pending or its outcome is being handled, every page returned before it has been
\* handed to the consumer in full, and the request carries the token of the last of
\* them (none for the first page).
C16_OneRequestAtATime ==
    /\ inFlight <= 1
    /\ pc \in {"inflight", "readingBody", "parsing", "sleeping"} =>
          /\ received = Concat(served)
          /\ requestLog # <<>>
          /\ Last(requestLog) = (IF served = <<>> THEN NoToken ELSE Last(served).next)

C16_Witness ==
    /\ mode = "stream"
    /\ pc = "inflight"
    /\ inFlight = 1
    /\ Len(served) = 1
    /\ received = <<(<<1, 1>>), (<<1, 2>>)>>
    /\ Last(requestLog) = "t2"

\* C17: features() hands nothing out before it ends; when it returns, the list is the
\* concatenation in server order of the records of every page served, and the traversal
\* ended at a page that ends it, every request having got its page; when a page request
\* fails it fails with an error and returns no list; and it never returns a list after
\* a request was cancelled in flight.
C17_FeaturesDrain ==
    mode = "features" =>
        /\ pc # "ready"
        /\ pc = "done" =>
              /\ served # <<>>
              /\ received = Concat(served)
              /\ error = NoError
              /\ \A i \in 1..(Len(served) - 1) :
                    Truthy(served[i].next) /\ Len(served[i].data) > 0
              /\ ~Truthy(Last(served).next) \/ Len(Last(served).data) = 0
        /\ pc = "failed" => error # NoError
        /\ cancelledFirst => pc # "done"

C17_Witness ==
    /\ mode = "features"
    /\ pc = "done"
    /\ anyFailure
    /\ Len(served) = 2
    /\ received = <<(<<1, 1>>), (<<1, 2>>), (<<2, 1>>)>>

\* C18: features() returns an empty list only when the traversal succeeded and the one
\* page served had zero records, and feature(id) returns null only then; whenever
\* features() returns, the last request got its page.
C18_NoFailureAsEmpty ==
    (mode = "features" /\ pc = "done") =>
        /\ error = NoError
        /\ Len(served) >= 1
        /\ ResOk(resStatus)
        /\ (received = <<>> \/ feature(received) = Null) =>
              /\ Len(served) = 1
              /\ served[1].data = <<>>

C18_Witness ==
    /\ mode = "features"
    /\ pc = "done"
    /\ received = <<>>
    /\ feature(received) = Null
    /\ Len(served) = 1
    /\ anyFailure

\* where the i-th term starts in the rendering, the separator taking three symbols
RECURSIVE TermOffset(_, _)
TermOffset(ts, i) == IF i <= 1 THEN 0 ELSE TermOffset(ts, i - 1) + Len(ts[i - 1]) + 3

\* the field name each typed method writes
FieldOf(m) ==
    CASE m = "baseline" -> "baseline_status"
      [] m = "range"    -> "baseline_date"
      [] OTHER          -> m

\* C19: the string toString() returns consists of the builder's terms, in the order of
\* the calls that appended them, each two neighbours separated by " AND " and nothing
\* else; with no terms it is the empty string.  (Each typed method appends one term that
\* begins with its field name, which tells the order of the terms.)
C19_ToStringJoinsTerms ==
    rendered.called =>
        /\ terms = <<>> => rendered.str = <<>>
        /\ terms # <<>> =>
              Len(rendered.str) = TermOffset(terms, Len(terms)) + Len(Last(terms))
        /\ \A i \in 1..Len(terms) :
              LET o == TermOffset(terms, i)
              IN  /\ SubSeq(rendered.str, o + 1, o + Len(terms[i])) = terms[i]
                  /\ i < Len(terms) =>
                        SubSeq(rendered.str, o + Len(terms[i]) + 1, o + Len(terms[i]) + 3)
                          = <<" ", "AND", " ">>
        /\ (\A i \in 1..Len(calls) : calls[i].m \notin {"custom", "andRaw"}) =>
              /\ Len(terms) = Len(calls)
              /\ \A i \in 1..Len(calls) : terms[i][1] = FieldOf(calls[i].m)

\* q().baseline("widely").group("css").range("2023-01-01", "2024-12-31").toString()
C19_Witness ==
    /\ Len(calls) = 3
    /\ calls[1] = [m |-> "baseline", a |-> <<"widely">>, b |-> <<>>]
    /\ calls[2] = [m |-> "group", a |-> <<"css">>, b |-> <<>>]
    /\ calls[3] = [m |-> "range", a |-> <<"2023-01-01">>, b |-> <<"2024-12-31">>]
    /\ rendered.called
    /\ rendered.str = <<"baseline_status", ":", "widely", " ", "AND", " ",
                        "group", ":", "css", " ", "AND", " ",
                        "baseline_date", ":", "2023-01-01", "..", "2024-12-31">>

\* white space as the contract of the builder means it: the characters JavaScript
\* takes for white space or for the end of a line
AsciiWhiteSpace == {" ", "\t", "\n", "\r", "\f", "", "U+000B"}
SpaceSeparators ==
    {"U+00A0", "U+1680", "U+202F", "U+205F", "U+3000"}
        \cup {"U+2000", "U+2001", "U+2002", "U+2003", "U+2004", "U+2005", "U+2006",
              "U+2007", "U+2008", "U+2009", "U+200A"}
WhiteSpaceChars == AsciiWhiteSpace \cup SpaceSeparators \cup {"U+2028", "U+2029", "U+FEFF"}

\* the value has a character that calls for quoting
HasSpecial(v) == \E i \in 1..Len(v) : v[i] \in WhiteSpaceChars \cup {"\"", ":", "(", ")"}

\* the double quotes among the first i symbols of v
QuotesUpTo(v, i) == Cardinality({j \in 1..i : v[j] = "\""})

\* body is v between two double quotes, a backslash put before every double quote of v
\* and nothing else changed
WrappedEscaped(body, v) ==
    /\ Len(body) = Len(v) + QuotesUpTo(v, Len(v)) + 2
    /\ body[1] = "\""
    /\ body[Len(body)] = "\""
    /\ \A i \in 1..Len(v) :
          LET k == 1 + i + QuotesUpTo(v, i)
          IN  /\ body[k] = v[i]
              /\ v[i] = "\"" => body[k - 1] = "\\"

\* C20: the term appended by id(v), group(v) or snapshot(v) is the field name, a colon
\* and the value: wrapped in double quotes with a backslash before each of its double
\* quotes when it has whitespace, a double quote, a colon or a parenthesis, and unquoted
\* and unchanged otherwise.  The term appended by baseline(status) is
\* "baseline_status:" and the status as given, never quoted.
C20_QuotingOfValues ==
    calls # <<>> =>
        LET c    == Last(calls)
            t    == Last(terms)
            body == SubSeq(t, 3, Len(t))
        IN  /\ c.m \in {"id", "group", "snapshot"} =>
                  /\ terms # <<>>
                  /\ Len(t) >= 2
                  /\ SubSeq(t, 1, 2) = <<c.m, ":">>
                  /\ HasSpecial(c.a) => WrappedEscaped(body, c.a)
                  /\ ~HasSpecial(c.a) => body = c.a
            /\ c.m = "baseline" =>
                  /\ terms # <<>>
                  /\ t = <<"baseline_status", ":">> \o c.a

\* q().id("a\u200Bb").id("a\u2003").id('"a"') appended id:a\u200Bb (the zero width
\* space is no white space), id:"a\u2003" (the em space is) and id:"\"a\""
C20_Witness ==
    /\ Len(calls) = 3
    /\ calls[1] = [m |-> "id", a |-> <<"a", "U+200B", "b">>, b |-> <<>>]
    /\ calls[2] = [m |-> "id", a |-> <<"a", "U+2003">>, b |-> <<>>]
    /\ calls[3] = [m |-> "id", a |-> <<"\"", "a", "\"">>, b |-> <<>>]
    /\ terms = <<(<<"id", ":", "a", "U+200B", "b">>),
                 (<<"id", ":", "\"", "a", "U+2003", "\"">>),
                 (<<"id", ":", "\"", "\\", "\"", "a", "\\", "\"", "\"">>)>>

\* the k-th symbol of the rendering is one of the two double quotes the builder wraps
\* around a value of id, group or snapshot
IsWrappingQuote(k) ==
    \E i \in 1..Len(terms) :
        /\ Len(terms[i]) >= 4
        /\ terms[i][1] \in {"id", "group", "snapshot"}
        /\ terms[i][2] = ":"
        /\ terms[i][3] = "\""
        /\ terms[i][Len(terms[i])] = "\""
        /\ k \in {TermOffset(terms, i) + 3, TermOffset(terms, i) + Len(terms[i])}

\* the k-th symbol of the rendering lies between the wrapping quotes of a value
InsideQuotedValue(k) ==
    \E i \in 1..Len(terms) :
        /\ \E a \in {TermOffset(terms, i) + 3} : IsWrappingQuote(a) /\ a < k
        /\ \E b \in {TermOffset(terms, i) + Len(terms[i])} : IsWrappingQuote(b) /\ k < b

\* C21: whatever the builder calls and their arguments, every double quote of the
\* string toString() returns that comes from caller input (every one that is not a
\* wrapping quote put there by the builder) has a backslash before it and lies inside
\* a quoted value.
C21_NoUnescapedQuote ==
    rendered.called =>
        \A k \in 1..Len(rendered.str) :
            (rendered.str[k] = "\"" /\ ~IsWrappingQuote(k)) =>
                /\ k > 1
                /\ rendered.str[k - 1] = "\\"
                /\ InsideQuotedValue(k)

\* C22: normalizeQuery returns the empty string for "", for {}, for a builder with no
\* terms and for undefined.
C22_EmptyInputs ==
    (/\ normalized.called
     /\ input \in {InString(<<>>), InObject(NoObj), InBuilder(<<>>), InUndefined})
        => normalized.str = <<>>

\* normalizeQuery({}) returned ""
C22_Witness ==
    /\ normalized.called
    /\ input = InObject(NoObj)
    /\ normalized.str = <<>>

\* C23 as stated: normalizeQuery(s) returns the string s verbatim.
C23_StringVerbatim ==
    (normalized.called /\ input.kind = "string") => normalized.str = input.str

\* r is s without its leading and trailing whitespace, nothing else altered
IsTrimOf(r, s) ==
    \E i \in 1..(Len(s) + 1) : \E j \in 0..Len(s) :
        /\ r = SubSeq(s, i, j)
        /\ \A k \in 1..Len(s) : (k < i \/ k > j) => s[k] \in WhiteSpaceChars
        /\ r # <<>> => r[1] \notin WhiteSpaceChars /\ r[Len(r)] \notin WhiteSpaceChars

\* C23, amended: normalizeQuery(s) returns s without its leading and trailing
\* whitespace and otherwise character for character.
C23_StringTrimmed ==
    (normalized.called /\ input.kind = "string") => IsTrimOf(normalized.str, input.str)

\* normalizeQuery("\u3000a b\u3000") returned "a b"
C23_Witness ==
    /\ normalized.called
    /\ input = InString(<<"U+3000", "a", " ", "b", "U+3000">>)
    /\ normalized.str = <<"a", " ", "b">>

\* the step is a call of custom or andRaw
RawCallStep ==
    /\ Len(calls') = Len(calls) + 1
    /\ Last(calls').m \in {"custom", "andRaw"}

\* C24 as stated: custom(term) / andRaw(term) appends the term verbatim; the builder
\* afterwards holds exactly one more term, identical to the argument.
C24_RawAppendVerbatim ==
    [][RawCallStep => terms' = Append(terms, Last(calls').a)]_vars

\* C24, amended: custom(term) / andRaw(term) appends the term without its leading and
\* trailing whitespace and otherwise character for character, as one more term after
\* the terms held before; a term that is empty or whitespace only appends nothing.
C24_RawAppendTrimmed ==
    [][RawCallStep =>
          LET a == Last(calls').a
          IN  IF \A k \in 1..Len(a) : a[k] \in WhiteSpaceChars
                THEN terms' = terms
                ELSE /\ Len(terms') = Len(terms) + 1
                     /\ SubSeq(terms', 1, Len(terms)) = terms
                     /\ IsTrimOf(Last(terms'), a)]_vars

\* q().andRaw("\u1680\n\u3000").custom(" -id:x ") holds the one term -id:x
C24_Witness ==
    /\ Len(calls) = 2
    /\ calls[1] = [m |-> "andRaw", a |-> <<"U+1680", "\n", "U+3000">>, b |-> <<>>]
    /\ calls[2] = [m |-> "custom", a |-> <<" ", "-", "id", ":", "x", " ">>, b |-> <<>>]
    /\ terms = <<(<<"-", "id", ":", "x">>)>>

\* what toString() of the clone returns
CopyRendering == toString(CopyArray)

\* C25: clone() returns a builder whose toString() equals the original's at the time
\* of cloning and leaves the original as it was; afterwards no call on the clone
\* changes the rendering of the original, and no call on the original changes the
\* rendering of the clone.
C25_CloneIndependent ==
    [][/\ (copyRef = 0 /\ copyRef' # 0) =>
              /\ CopyRendering' = toString(terms)
              /\ toString(terms') = toString(terms)
       /\ copyCalls' # copyCalls =>
              /\ toString(terms') = toString(terms)
              /\ terms' = terms
       /\ (calls' # calls /\ copyRef # 0) =>
              /\ CopyRendering' = CopyRendering
              /\ CopyArray' = CopyArray]_vars

\* q().id("css"), cloned; then group("a b") on the original and andRaw(" -id:x ") on
\* the clone: the two render differently, each with its own second term
C25_Witness ==
    /\ copyRef # 0
    /\ clonedAt = 1
    /\ Len(calls) = 2
    /\ calls[1] = [m |-> "id", a |-> <<"css">>, b |-> <<>>]
    /\ calls[2] = [m |-> "group", a |-> <<"a", " ", "b">>, b |-> <<>>]
    /\ copyCalls = <<[m |-> "andRaw", a |-> <<" ", "-", "id", ":", "x", " ">>, b |-> <<>>]>>
    /\ toString(terms) = <<"id", ":", "css", " ", "AND", " ",
                           "group", ":", "\"", "a", " ", "b", "\"">>
    /\ CopyRendering = <<"id", ":", "css", " ", "AND", " ", "-", "id", ":", "x">>

\* t is the term the call c stands for: the field, a colon and the value (quoted where
\* it has to be) for a typed call, the argument without the white space around it for
\* custom and andRaw
TermOfCall(t, c) ==
    CASE c.m \in {"id", "group", "snapshot"} ->
             /\ Len(t) >= 2
             /\ SubSeq(t, 1, 2) = <<c.m, ":">>
             /\ IF HasSpecial(c.a) THEN WrappedEscaped(SubSeq(t, 3, Len(t)), c.a)
                                   ELSE SubSeq(t, 3, Len(t)) = c.a
      [] c.m = "baseline" -> t = <<"baseline_status", ":">> \o c.a
      [] c.m = "range"    -> t = <<"baseline_date", ":">> \o c.a \o <<"..">> \o c.b
      [] OTHER            -> IsTrimOf(t, c.a)

\* the call stands for no term: custom or andRaw of nothing but white space
StandsForNothing(c) ==
    /\ c.m \in {"custom", "andRaw"}
    /\ \A k \in 1..Len(c.a) : c.a[k] \in WhiteSpaceChars

\* the calls among cs that stand for a term, in their order
TermCalls(cs) == SelectSeq(cs, LAMBDA c : ~StandsForNothing(c))

\* str is the terms the calls cs stand for, one after the other in the order of the
\* calls, " AND " and nothing else between two of them
RECURSIVE RendersCalls(_, _)
RendersCalls(str, cs) ==
    IF cs = <<>> THEN str = <<>>
    ELSE IF Len(cs) = 1 THEN TermOfCall(str, cs[1])
    ELSE \E n \in 1..(Len(str) - 3) :
            /\ TermOfCall(SubSeq(str, 1, n), cs[1])
            /\ SubSeq(str, n + 1, n + 3) = <<" ", "AND", " ">>
            /\ RendersCalls(SubSeq(str, n + 4, Len(str)), Tail(cs))

\* the step is a call of toString()
ToStringStep == rendered'.called /\ calls' = calls /\ copyRef' = copyRef

\* C26: a call of toString() leaves the builder's terms as they are; called again with
\* no append in between it returns the same string; and the string it returns is fixed
\* by the calls made on the builder so far and their order, whatever renderings were
\* asked for in between: it holds the term of every call made so far, and of no other.
C26_ToStringIdempotent ==
    [][ToStringStep =>
          /\ terms' = terms
          /\ rendered.called => rendered'.str = rendered.str
          /\ RendersCalls(rendered'.str, TermCalls(calls))
          /\ Len(terms') = Len(TermCalls(calls))]_vars

\* q().id("css").andRaw("\u1680\n\u3000").id("css").toString(), a rendering asked for before the
\* third call or not: the same term twice, nothing for the white space
C26_Witness ==
    /\ rendered.called
    /\ Len(calls) = 3
    /\ calls[1] = [m |-> "id", a |-> <<"css">>, b |-> <<>>]
    /\ calls[2] = [m |-> "andRaw", a |-> <<"U+1680", "\n", "U+3000">>, b |-> <<>>]
    /\ calls[3] = [m |-> "id", a |-> <<"css">>, b |-> <<>>]
    /\ rendered.str = <<"id", ":", "css", " ", "AND", " ", "id", ":", "css">>
    /\ terms = <<(<<"id", ":", "css">>), (<<"id", ":", "css">>)>>

\* the requests traversal t made before its i-th for the same page: the attempts of
\* its own call that failed
OwnEarlierAttempts(t, i) ==
    Cardinality({j \in 1..(i - 1) : trav[t].log[j].page = trav[t].log[i].page})

\* the attempts of the call traversal t is in or was in last
OwnAttempts(t) ==
    Cardinality({j \in 1..Len(trav[t].log) : trav[t].log[j].page = Last(trav[t].log).page})

\* C27: with two traversals interleaved on one client, each sees what it would see
\* alone: every request carries the token of the last page the same traversal received
\* and the attempt index counted from the failures of its own call; its timer is
\* pending while its request is in flight unless that timer fired; its backoff delay is
\* computed from its own attempt index; and it fails only by its own last failure,
\* after attempts of its own.
C27_TraversalsIsolated ==
    \A t \in T :
        /\ \A i \in 1..Len(trav[t].log) :
              LET e == trav[t].log[i]
              IN  /\ e.token = (IF e.page = 0 THEN NoToken ELSE trav[t].got[e.page])
                  /\ e.attempt = OwnEarlierAttempts(t, i)
        /\ \A k \in 1..Len(trav[t].got) :
              trav[t].got[k] \in {NoToken, PageTokens[t][k]}
        /\ trav[t].pc = "inflight" =>
              /\ frame[t].attempt = OwnAttempts(t) - 1
              /\ frame[t].timeoutId \/ frame[t].timedOut
              /\ frame[t].aborted = frame[t].timedOut
        /\ trav[t].pc = "sleeping" =>
              /\ OwnAttempts(t) <= RetryOf(t)
              /\ \E rnd \in 0..(RandDen - 1) :
                    trav[t].sleepMs = computeDelay(OwnAttempts(t) - 1, backoff.base,
                                          backoff.factor, backoff.max, backoff.jitter, rnd)
        /\ trav[t].pc \in {"readingBody", "parsing"} =>
              /\ frame[t].attempt = OwnAttempts(t) - 1
              /\ ~frame[t].timeoutId /\ ~frame[t].timedOut
        /\ trav[t].pc = "failed" =>
              /\ trav[t].error \in {HTTPError(404), HTTPError(503), SyntaxError,
                                     TimeoutError(defaultTimeout)}
              /\ OwnAttempts(t) = RetryOf(t) + 1
        /\ trav[t].pc = "done" =>
              /\ trav[t].got # <<>>
              /\ Last(trav[t].got) = NoToken \/ Len(trav[t].got) = MaxPages

\* traversal 1 (retry 1) sleeps after its first attempt failed, while traversal 2 has
\* received its first page and asks for the second with the token of that page
C27_Witness ==
    /\ trav[1].pc = "sleeping"
    /\ Len(trav[1].log) = 1
    /\ trav[2].pc = "inflight"
    /\ trav[2].got = <<"b1">>
    /\ Last(trav[2].log) = [page |-> 1, token |-> "b1", attempt |-> 0]
    /\ frame[1].attempt = 0
    /\ frame[2].token = "b1"

\* C28: in stream(), when the request for a page fails, the consumer has received the
\* records of every page served before, in server order and each once, and nothing
\* else; the failed request is the one for the page after them; and no request is made,
\* and so none fails, while a record of the page before is still to be yielded.
C28_StreamFailureAtPull ==
    mode = "stream" =>
        /\ pc = "failed" =>
              /\ error # NoError
              /\ received = Concat(served)
              /\ callRequests > 0 =>
                    Last(requestLog) = (IF served = <<>> THEN NoToken ELSE Last(served).next)
        /\ pc \in {"inflight", "readingBody", "parsing", "sleeping", "failed"} =>
              itemIdx >= Len(res.data)
        /\ itemIdx < Len(res.data) => pc = "ready"

\* the request for page 2 was answered 404: the consumer holds the two records of
\* page 1 and gets the error on its third pull
C28_Witness ==
    /\ mode = "stream"
    /\ pc = "failed"
    /\ error = HTTPError(404)
    /\ Len(served) = 1
    /\ received = <<(<<1, 1>>), (<<1, 2>>)>>
    /\ Len(requestLog) = 2
    /\ Last(requestLog) = Last(served).next

\* C29 as stated: with jitter the delay is d - r with d = min(max, base * factor^attempt)
\* and 0 <= r <= 0.2 * d: it is at most d, not negative and not below 0.8 * d.
C29_JitterWithinFifth ==
    (dOut # <<>> /\ dArgs.jitter) =>
        LET d == QMin(dArgs.max, DelayProduct)
        IN  /\ dOut[1] >= 0
            /\ QLe(dOut, d)
            /\ 4 * d[1] * dOut[2] <= 5 * dOut[1] * d[2]

\* x rounded to the nearest integer, halves up
Nearest(x) == IF RoundsTo(x, x[1] \div x[2]) THEN x[1] \div x[2] ELSE (x[1] \div x[2]) + 1

\* C29, amended: with jitter the delay is d - r with d = min(max, base * factor^attempt
\* rounded to the nearest integer) and r a whole number, 0.2 * d * u rounded to the
\* nearest integer for some u in [0, 1): 0 <= r < 0.2 * d + 1/2.  The delay is not
\* negative, at most d and above 0.8 * d - 1/2.
C29_JitterRounded ==
    (dOut # <<>> /\ dArgs.jitter) =>
        LET d    == QMin(dArgs.max, Q(Nearest(DelayProduct)))
            rNum == d[1] * dOut[2] - dOut[1] * d[2]
            rDen == d[2] * dOut[2]
        IN  /\ dOut[1] >= 0
            /\ rNum >= 0
            /\ rNum % rDen = 0
            /\ 10 * rNum * d[2] < (2 * d[1] + 5 * d[2]) * rDen

\* computeDelay(2, 1, 2, 5, true) with Math.random() = 2/3: d = 4, 0.2 * 4 * 2/3 rounds
\* to 1, the delay is 3, below 0.8 * 4
C29_Witness ==
    /\ dArgs = [attempt |-> 2, base |-> Q(1), factor |-> Q(2), max |-> Q(5), jitter |-> TRUE]
    /\ dOut # <<>>
    /\ QEq(dOut, Q(3))

\* the suspension points inside a requestPage call
InCall == {"inflight", "readingBody", "parsing", "sleeping"}

\* C30: a requestPage call that has made k network attempts when it ends, by a page
\* or by an error, has slept k - 1 times; a backoff sleep starts only after an attempt,
\* as the k-th sleep after the k-th attempt, with the delay computeDelay gives for
\* attempt index k - 1; and what follows a sleep is the next attempt, so that no sleep
\* comes after the last one.
C30_SleepsBetweenAttempts ==
    [][/\ (pc \in InCall /\ pc' \notin InCall /\ callRequests >= 1) =>
              /\ pc # "sleeping"
              /\ callSleeps = callRequests - 1
       /\ (pc \in InCall /\ pc # "sleeping" /\ pc' = "sleeping") =>
              /\ callSleeps' = callRequests
              /\ callSleeps' = callSleeps + 1
              /\ \E rnd \in 0..(RandDen - 1) :
                    sleepMs' = computeDelay(callRequests - 1, backoff.base,
                                   backoff.factor, backoff.max, backoff.jitter, rnd)
       /\ (pc = "sleeping" /\ pc' # "sleeping") =>
              /\ pc' = "inflight"
              /\ callRequests' = callRequests + 1
              /\ callSleeps' = callSleeps]_vars

\* C31: a step that issues a request issues one; the request carries the q of the
\* traversal and the next_page_token of the page fetched last before it, none if no
\* page was fetched yet; and it is issued by a pull of the consumer (the first next(),
\* or a next() that finds the page before used up) or, within that pull, by the retry
\* after a backoff sleep.  In features(), which pulls for itself, it is also issued as
\* soon as a page arrives.  While the consumer holds a page and has not pulled again,
\* no request is pending.
C31_RequestsFollowPulls ==
    [][/\ requestLog' # requestLog =>
              /\ requestLog' = Append(requestLog, IF served' = <<>> THEN NoToken
                                                  ELSE Last(served').next)
              /\ queryLog' = Append(queryLog, normalized'.str)
              /\ served' # <<>> => Last(requestLog') # NoToken
              /\ \/ pc = "start"
                 \/ pc = "sleeping"
                 \/ pc = "ready" /\ itemIdx >= Len(res.data)
                 \/ pc = "parsing" /\ mode = "features"
       /\ pc' \in {"start", "ready", "done", "failed"} => inFlight' = 0]_vars

\* pages(): the second request, issued by the second pull, carries the token of page 1
C31_Witness ==
    /\ mode = "pages"
    /\ pc = "inflight"
    /\ Len(served) = 1
    /\ served[1].next = "t1"
    /\ requestLog = <<NoToken, "t1">>
    /\ queryLog = <<(<<>>), (<<>>)>>
    /\ inFlight = 1
\* C32: every attempt of a call arms a timer of its own with the whole timeout: no timer of
\* an earlier attempt is pending when an attempt starts, the new timer has the whole
\* timeout left whatever earlier attempts, sleeps and pages took, and a timer fires, and
\* a call fails as timed out, only when its attempt has waited the whole timeout
C32_FreshTimerPerAttempt ==
    [][\A t \in T :
          /\ Len(trav'[t].log) > Len(trav[t].log) =>
                /\ ~frame[t].timeoutId
                /\ frame'[t].timeoutId /\ ~frame'[t].timedOut
                /\ frame'[t].left = TimeoutTicks /\ trav'[t].since = 0
          /\ frame'[t].timedOut /\ ~frame[t].timedOut => trav[t].since = TimeoutTicks
          /\ trav'[t].pc = "failed" /\ trav[t].pc # "failed"
                /\ trav'[t].error = TimeoutError(defaultTimeout) => trav[t].since = TimeoutTicks
          /\ trav[t].pc = "inflight" /\ trav'[t].pc \in {"parsing", "readingBody"} =>
                ~frame[t].timedOut /\ ~frame'[t].timeoutId /\ trav[t].since <= TimeoutTicks
          /\ Len(trav'[t].got) > Len(trav[t].got) => ~frame[t].timedOut]_vars

\* a second attempt of the second page is in flight with the whole timeout left, the
\* attempt before it having timed out
C32_Witness ==
    /\ trav[1].pc = "inflight" /\ Len(trav[1].got) = 1 /\ frame[1].attempt = 1
    /\ frame[1].timeoutId /\ frame[1].left = TimeoutTicks /\ trav[1].since = 0
    /\ trav[1].sleepMs = Q(0) /\ Len(trav[1].log) = 3

\* C33: no retry state survives a page request: the call for every page starts at
\* attempt 0 whatever index the call for the page before reached, its first backoff
\* delay is the one of attempt 0, and it gives up only after retry + 1 attempts of
\* its own
C33_PageCallsStartAfresh ==
    [][\A t \in T :
          /\ trav[t].pc = "ready" /\ trav'[t].pc = "done" =>
                trav[t].got # <<>> /\ Last(trav[t].got) = NoToken
          /\ trav[t].pc = "ready" /\ trav'[t].pc \notin {"ready", "done"} =>
                /\ trav'[t].pc = "inflight"
                /\ frame'[t].attempt = 0 /\ Last(trav'[t].log).attempt = 0
                /\ Last(trav'[t].log).page = Len(trav[t].got)
                /\ ~frame'[t].timedOut /\ trav'[t].sleepMs = Q(0)
          /\ trav[t].pc # "sleeping" /\ trav'[t].pc = "sleeping" /\ OwnAttempts(t) = 1 =>
                \E rnd \in 0..(RandDen - 1) :
                    trav'[t].sleepMs = computeDelay(0, backoff.base, backoff.factor,
                                           backoff.max, backoff.jitter, rnd)
          /\ trav[t].pc # "failed" /\ trav'[t].pc = "failed" =>
                OwnAttempts(t) = RetryOf(t) + 1]_vars

\* the first page took two attempts, and the call for the second page, begun at attempt
\* 0, sleeps after its first attempt failed
C33_Witness ==
    /\ RetryOf(1) = 1 /\ Len(trav[1].got) = 1 /\ trav[1].pc = "sleeping"
    /\ Len(trav[1].log) = 3
    /\ trav[1].log[1].attempt = 0 /\ trav[1].log[2].attempt = 1 /\ trav[1].log[2].page = 0
    /\ trav[1].log[3].attempt = 0 /\ trav[1].log[3].page = 1

\* C35: a timer is pending and a listener is on the caller's signal only while the
\* request of an attempt is in flight: when requestPage has returned or thrown, while it
\* sleeps before the next attempt and while it reads a response, there is neither; as
\* an attempt starts only from such a state, a call never holds two of either
C35_TimerAndListenerReleased ==
    /\ pc # "inflight" => ~timeoutId /\ ~onAbort
    /\ onAbort => opts.signal /\ (timeoutId \/ timedOut)
    /\ timeoutId => ~timedOut /\ inFlight = 1

\* a call with a signal sleeps before its second attempt, the first having timed out:
\* the timer has fired and the listener is gone
C35_Witness ==
    /\ pc = "sleeping" /\ opts.signal /\ timedOut /\ ~userAborted
    /\ ~timeoutId /\ ~onAbort /\ callRequests = 1

\* C36: a requestPage call that did not find its signal aborted has issued a request
\* before it fails, whatever retry it was given, and the failure "Unknown request
\* failure" of the throw after the loop never comes from a call that made no request
C36_RequestBeforeFailure ==
    pc = "failed" =>
        /\ error # AbortError => callRequests >= 1
        /\ error = UnknownFailure => callRequests >= 1

\* C34: every request of a traversal carries the same q, the string that normalizeQuery
\* made of the caller's input at the first pull: of a builder the rendering of the terms
\* it held then, whatever the caller appended to it afterwards
C34_OneQueryPerTraversal ==
    /\ Len(queryLog) = Len(requestLog)
    /\ \A i \in 1..Len(queryLog) : queryLog[i] = normalized.str
    /\ queryLog # <<>> => normalized.called
    /\ normalized.called =>
          IF input.kind = "builder"
            THEN \E k \in 0..Len(input.terms) :
                    normalized.str = toString(SubSeq(input.terms, 1, k))
            ELSE normalized.str = normalizeQuery(input)

\* the second page is requested with the q of the first although the builder has
\* received a term since and would render differently now
C34_Witness ==
    /\ input.kind = "builder" /\ Len(served) = 1 /\ Len(queryLog) = 2
    /\ queryLog[1] = <<"id", ":", "css">> /\ queryLog[2] = queryLog[1]
    /\ normalizeQuery(input) # queryLog[2]

\* the listing has no page whose request fails
NoFailures == \A k \in 1..Len(srv) : ~srv[k].fails

\* C37: for a listing served without failures the four drains, once all have returned,
\* have requested the same page tokens in the same order and hold the same records,
\* also when a page has no record and a token
C37_DrainsAgree ==
    NoFailures /\ (\A d \in DrainSet : drain[d].pc = "returned") =>
        \A d \in DrainSet :
            /\ drain[d].log = drain["features"].log
            /\ drain[d].out = drain["features"].out

\* C38: byId returns null only when the features() call it awaited returned and held
\* no record; when that call rejects, so does byId
C38_NullOnlyWhenNoMatch ==
    \A w \in {"byId", "byIdStandalone"} :
        /\ lookupOut[w] = NullOut =>
              drain[LookupOver[w]].pc = "returned" /\ drain[LookupOver[w]].out = <<>>
        /\ lookupOut[w] # Pending /\ drain[LookupOver[w]].pc = "threw" => lookupOut[w] = Threw

====
